---- MODULE Spec2Model ----
(***************************************************************************)
(* Model of the publishing side of Patient-Builder (src/Ex.py): the text   *)
(* segmenter, the message builder, the fallback publish protocol and the   *)
(* orchestrator loop of main().                                             *)
(*                                                                          *)
(* A text (Python str) is a sequence of one-character strings; offsets are *)
(* 0-based as in Python, so the character at offset i of s is s[i+1].      *)
(***************************************************************************)
EXTENDS Integers, Sequences, FiniteSets, TLC

VARIABLES
  pc,            \* control position of the run
  content_text,  \* the text handed to the function / publish call under way
  segments,      \* result of _split_into_segments (segmenter runs)
  force_legacy,  \* --force-legacy
  dry_run,       \* --dry-run
  messages,      \* publish_prompt_in_folder: the message list it built
  sent,          \* requests sent by the publish call under way, in order
  resp,          \* per attempt: what the publish call received (r*, data*)
  result,        \* value returned by the publish call
  call,          \* arguments of the publish call under way
  service,       \* the replies the remote service may give in this run
  files,         \* main: the texts of the short / medium / long build files
  idx,           \* main: index (1..9) of the prompt being published
  published,     \* main: labels appended to `published`
  extras,        \* main: entries appended to `extras`
  exit_code,     \* main: how the process ended
  remote,        \* the service: the entries it lists under the parent folder
  workspace_id,  \* --workspace-id
  flog,          \* requests sent by the ensure_patient_folder call under way
  existing,      \* ensure_patient_folder: what the first list_children gave
  existing_after, \* ensure_patient_folder: what the second list_children gave
  created,       \* ensure_patient_folder: status and body create_folder got
  folder_id,     \* value ensure_patient_folder returned; main's folder_id
  returned,      \* values returned by the earlier ensure_patient_folder calls
  type_index,    \* generate_all_interactions: position i in RESPONSE_TYPES
  retry_count,   \* generate_all_interactions: retry_count of the type under way
  interaction,   \* generate_all_interactions: interaction of the type under way
  outputs,       \* what the model calls for the type under way gave, in order
  results        \* generate_all_interactions: the entries appended to results

vars == << pc, content_text, segments, force_legacy, dry_run, messages, sent,
           resp, result, call, service, files, idx, published, extras,
           exit_code, remote, workspace_id, flog, existing, existing_after, created,
           folder_id, returned, type_index, retry_count, interaction, outputs,
           results >>

\* The state of the generator.
generator_vars == << type_index, retry_count, interaction, outputs, results >>

\* The state of the folder stage.
folder_vars ==
  << remote, workspace_id, flog, existing, existing_after, created, folder_id,
     returned >>

-----------------------------------------------------------------------------
(* Bounds of the model                                                     *)

\* Longest text of the exhaustive family of segmenter inputs.
MaxLen == 7
\* Most parts of a text of the repeated family (parts joined by a separator).
MaxParts == 6
\* Window of the fixed-size chunking.  The source uses 1500 (Ex.py:222); the
\* model scales the window down so that texts of a few characters span
\* several windows and the cap of 5 chunks is reached.
chunk_size == 3
\* Most blocks of a document of the block family of builder inputs.
MaxBlocks == 3
\* Calls of ensure_patient_folder in a row in a folder run.
MaxCalls == 2

-----------------------------------------------------------------------------
(* Python str / re primitives                                              *)

Min(a, b) == IF a < b THEN a ELSE b

\* Characters that str.strip() removes and that \s matches.
WS == {" ", "\t", "\n", "\r"}

\* s[i:j]
Slice(s, i, j) == SubSeq(s, i + 1, Min(j, Len(s)))

\* s.startswith(lit, i)
StartsWithAt(s, i, lit) ==
  /\ i + Len(lit) <= Len(s)
  /\ SubSeq(s, i + 1, i + Len(lit)) = lit

\* Least / greatest element of a non-empty set of integers.
MinOf(S) == CHOOSE x \in S : \A y \in S : x <= y
MaxOf(S) == CHOOSE x \in S : \A y \in S : y <= x

\* Offset after the longest run of characters of C that starts at offset i.
SkipWhile(s, i, C) ==
  MinOf({ j \in i..Len(s) : j = Len(s) \/ s[j + 1] \notin C })

\* Offset of the first character of the run of characters of C that ends
\* just before offset j.
SkipBack(s, j, C) ==
  MaxOf({ i \in 0..j : i = 0 \/ s[i] \notin C })

\* s.strip()
strip(s) ==
  Slice(s, SkipWhile(s, 0, WS), SkipBack(s, Len(s), WS))

\* s[:n] of a list
Take(l, n) == SubSeq(l, 1, Min(n, Len(l)))

\* Offset of the first occurrence of sep at or after offset i, or -1.
Find(s, sep, i) ==
  IF \E j \in i..Len(s) : StartsWithAt(s, j, sep)
  THEN MinOf({ j \in i..Len(s) : StartsWithAt(s, j, sep) })
  ELSE -1

RECURSIVE SplitFrom(_, _, _, _)
\* the pieces of s[start:] between the occurrences of sep; at is the next
\* occurrence of sep at or after start
SplitFrom(s, sep, start, at) ==
  IF at < 0 THEN << Slice(s, start, Len(s)) >>
  ELSE << Slice(s, start, at) >>
       \o SplitFrom(s, sep, at + Len(sep), Find(s, sep, at + Len(sep)))

\* s.split(sep)
split(s, sep) == SplitFrom(s, sep, 0, Find(s, sep, 0))

RECURSIVE Concat(_, _, _)
\* f[lo] \o ... \o f[hi]
Concat(f, lo, hi) ==
  IF lo > hi THEN <<>>
  ELSE IF lo = hi THEN f[lo]
  ELSE Concat(f, lo, (lo + hi) \div 2) \o Concat(f, (lo + hi) \div 2 + 1, hi)

\* s.replace(old, new), for an old of one character
replace_char(s, old, new) ==
  [ i \in 1..Len(s) |-> IF s[i] = old THEN new ELSE s[i] ]

\* s.replace("\r\n", "\n"): the two characters of "\r\n" differ, so its
\* occurrences never overlap and each "\r" that a "\n" follows is dropped.
replace_crlf(s) ==
  Concat([ i \in 1..Len(s) |->
             IF s[i] = "\r" /\ i < Len(s) /\ s[i + 1] = "\n" THEN <<>>
             ELSE << s[i] >> ], 1, Len(s))

RECURSIVE join(_, _)
\* sep.join(l)
join(sep, l) ==
  IF l = <<>> THEN <<>>
  ELSE IF Len(l) = 1 THEN l[1]
       ELSE l[1] \o sep \o join(sep, Tail(l))

\* offset after the longest run of whitespace that starts at offset i  (\s*)
SkipSpace(s, i) == SkipWhile(s, i, WS)

\* offset after the longest run of dashes that starts at offset i
SkipDash(s, i) == SkipWhile(s, i, { "-" })

\* Offset just after the last newline within offsets i..j-1, or -1.  This is
\* where a greedy \s* followed by \n ends when the whitespace run is i..j-1.
AfterLastNewline(s, i, j) ==
  IF \E k \in i..(j - 1) : s[k + 1] = "\n"
  THEN MaxOf({ k \in i..(j - 1) : s[k + 1] = "\n" }) + 1
  ELSE -1

\* End offset of a match of  \n\s*---+\s*\n  whose \n is at offset i and whose
\* dashes run over offsets j..k-1, or -1.
DashRunEnd(s, j, k) ==
  IF k - j >= 3 THEN AfterLastNewline(s, k, SkipSpace(s, k)) ELSE -1

DashesEnd(s, j) == DashRunEnd(s, j, SkipDash(s, j))

\* End offset of a match of  \n\s*---+\s*\n  that starts at offset i, or -1.
DashMatchEnd(s, i) ==
  IF ~(i < Len(s) /\ s[i + 1] = "\n") THEN -1
  ELSE DashesEnd(s, SkipSpace(s, i + 1))

\* Offset of the first match of the dash pattern at or after offset i, or -1.
FindDash(s, i) ==
  IF \E j \in i..(Len(s) - 1) : DashMatchEnd(s, j) >= 0
  THEN MinOf({ j \in i..(Len(s) - 1) : DashMatchEnd(s, j) >= 0 })
  ELSE -1

RECURSIVE ReSplitFrom(_, _, _)
\* the pieces of s[start:] between the matches; at is the next match
ReSplitFrom(s, start, at) ==
  IF at < 0 THEN << Slice(s, start, Len(s)) >>
  ELSE << Slice(s, start, at) >>
       \o ReSplitFrom(s, DashMatchEnd(s, at), FindDash(s, DashMatchEnd(s, at)))

\* re.split(r"\n\s*---+\s*\n", s)
re_split_dash(s) == ReSplitFrom(s, 0, FindDash(s, 0))

RECURSIVE StripNonEmpty(_)
\* [p.strip() for p in l if p.strip()]
StripNonEmpty(l) ==
  IF l = <<>> THEN <<>>
  ELSE LET p == strip(Head(l))
       IN  (IF p # <<>> THEN << p >> ELSE <<>>) \o StripNonEmpty(Tail(l))

-----------------------------------------------------------------------------
(* Python values of JSON bodies: each value carries its type                *)

PyNone == [ t |-> "none" ]
PyInt(n) == [ t |-> "int", v |-> n ]
PyStr(s) == [ t |-> "str", v |-> s ]
PyList(l) == [ t |-> "list", v |-> l ]
PyDict(d) == [ t |-> "dict", v |-> d ]

\* isinstance(x, dict), isinstance(x, list)
IsDict(x) == x.t = "dict"
IsList(x) == x.t = "list"

\* d.get(key, default)
DictGet(d, key, default) == IF key \in DOMAIN d.v THEN d.v[key] ELSE default

\* bool(x), as `or` and `if` take it
PyTruthy(x) ==
  CASE x.t = "none" -> FALSE
    [] x.t = "int" -> x.v # 0
    [] x.t \in { "str", "list" } -> Len(x.v) > 0
    [] x.t = "dict" -> DOMAIN x.v # {}

\* a or b
PyOr(a, b) == IF PyTruthy(a) THEN a ELSE b

Digits == << "0", "1", "2", "3", "4", "5", "6", "7", "8", "9" >>
IsDigit(c) == \E d \in 1..10 : Digits[d] = c
DigitValue(c) == (CHOOSE d \in 1..10 : Digits[d] = c) - 1

RECURSIVE DecimalValue(_)
\* the number a text of digits writes
DecimalValue(s) ==
  IF s = <<>> THEN 0
  ELSE 10 * DecimalValue(SubSeq(s, 1, Len(s) - 1)) + DigitValue(s[Len(s)])

\* int(x) succeeds: x is an int, or a text of digits with whitespace around
\* it (the texts of the model hold no sign and no underscore); int(None)
\* and int of any other text raise.
IntOk(x) ==
  \/ x.t = "int"
  \/ /\ x.t = "str"
     /\ strip(x.v) # <<>>
     /\ \A k \in 1..Len(strip(x.v)) : IsDigit(strip(x.v)[k])

\* int(x), when it succeeds
IntOf(x) == IF x.t = "int" THEN x.v ELSE DecimalValue(strip(x.v))

UPPERCASE == << "A", "B", "C", "D", "E", "F", "G", "H", "I", "J", "K", "L", "M",
               "N", "O", "P", "Q", "R", "S", "T", "U", "V", "W", "X", "Y", "Z" >>
LOWERCASE == << "a", "b", "c", "d", "e", "f", "g", "h", "i", "j", "k", "l", "m",
               "n", "o", "p", "q", "r", "s", "t", "u", "v", "w", "x", "y", "z" >>

LowerChar(c) ==
  IF \E k \in 1..26 : UPPERCASE[k] = c
  THEN LOWERCASE[CHOOSE k \in 1..26 : UPPERCASE[k] = c]
  ELSE c

\* s.lower(), for a text of ASCII characters
lower(s) == [ k \in 1..Len(s) |-> LowerChar(s[k]) ]

-----------------------------------------------------------------------------
(* Literals of the source                                                  *)

CONTINUED == <<"(", "c", "o", "n", "t", "i", "n", "u", "e", "d", ")">>
NLNL == <<"\n", "\n">>
NL == <<"\n">>
HASHES == <<"#", "#", "#">>
System == <<"S", "y", "s", "t", "e", "m">>
User == <<"U", "s", "e", "r">>
Assistant == <<"A", "s", "s", "i", "s", "t", "a", "n", "t">>
CURRENT_PROVIDER_QUESTION ==
  <<"C", "U", "R", "R", "E", "N", "T", " ", "P", "R", "O", "V", "I", "D", "E", "R",
    " ", "Q", "U", "E", "S", "T", "I", "O", "N", ":">>
PROVIDER_QUESTION_VAR ==
  <<"{", "{", " ", "p", "r", "o", "v", "i", "d", "e", "r", "_", "q", "u", "e", "s",
    "t", "i", "o", "n", " ", "}", "}">>
UNDERSTOOD ==
  <<"U", "n", "d", "e", "r", "s", "t", "o", "o", "d", ".", " ", "I", " ", "w", "i",
    "l", "l", " ", "r", "e", "s", "p", "o", "n", "d", " ", "a", "s", " ", "t", "h",
    "e", " ", "p", "a", "t", "i", "e", "n", "t", " ", "p", "e", "r", "s", "o", "n",
    "a", " ", "f", "o", "l", "l", "o", "w", "i", "n", "g", " ", "t", "h", "e", "s",
    "e", " ", "g", "u", "i", "d", "e", "l", "i", "n", "e", "s", ".">>

-----------------------------------------------------------------------------
(* Segmenter: _split_into_segments                                         *)

\* [head[:mid].strip(), head[mid:].strip() or "(continued)"], mid = len//2 or 1
MidpointSplit(head) ==
  LET half == Len(head) \div 2
      mid  == IF half = 0 THEN 1 ELSE half
      tl   == strip(Slice(head, mid, Len(head)))
  IN  << strip(Slice(head, 0, mid)), IF tl # <<>> THEN tl ELSE CONTINUED >>

RECURSIVE ChunkLoop(_, _, _)
\* for i in range(0, len(text), chunk_size): append the stripped non-empty
\* window to segs; stop once segs holds 5
ChunkLoop(text, segs, i) ==
  IF i >= Len(text) THEN segs
  ELSE LET chunk == strip(Slice(text, i, i + chunk_size))
           segs2 == IF chunk # <<>> THEN Append(segs, chunk) ELSE segs
       IN  IF Len(segs2) >= 5 THEN segs2
           ELSE ChunkLoop(text, segs2, i + chunk_size)

DashParts(text) == StripNonEmpty(re_split_dash(text))
ParagraphParts(text) == StripNonEmpty(split(text, NLNL))

\* Lines 215-216: the dash parts count only when there are 2 or more.
AfterDashSplit(dash_parts) ==
  IF Len(dash_parts) >= 2 THEN Take(dash_parts, 5) ELSE <<>>

\* A variant that takes the paragraphs whatever the dash split gave.
AfterParagraphSplitAlways(text, segs) == Take(ParagraphParts(text), 5)

\* Lines 217-219.
AfterParagraphSplit(text, segs) ==
  IF Len(segs) < 2 THEN Take(ParagraphParts(text), 5) ELSE segs

\* A variant whose chunks replace the segments found so far.
AfterChunkingFresh(text, segs) ==
  IF Len(segs) < 2 THEN ChunkLoop(text, <<>>, 0) ELSE segs

\* Lines 220-228: the chunks are appended to the segments found so far.
AfterChunking(text, segs) ==
  IF Len(segs) < 2 THEN ChunkLoop(text, segs, 0) ELSE segs

\* Lines 230-233.
AfterMidpoint(segs) ==
  IF Len(segs) = 1 THEN MidpointSplit(segs[1]) ELSE segs

_split_into_segments(text) ==
  Take(AfterMidpoint(
         AfterChunking(text,
           AfterParagraphSplit(text, AfterDashSplit(DashParts(text))))), 5)

-----------------------------------------------------------------------------
(* Message builder: _parse_markdown_segments and the head of               *)
(* publish_prompt_in_folder                                                 *)

\* A message is a record [role, template_format, input_variables, content];
\* content is the list of the texts of its {"type": "text", "text": ...}
\* entries.
Msg(role, vars_, content) ==
  [ role |-> role, template_format |-> "jinja2", input_variables |-> vars_,
    content |-> content ]

RoleLabels == << System, User, Assistant >>
role_map == << "system", "user", "assistant" >>

\* Which of System|User|Assistant starts at offset j (0: none).
LabelAt(s, j) ==
  IF StartsWithAt(s, j, RoleLabels[1]) THEN 1
  ELSE IF StartsWithAt(s, j, RoleLabels[2]) THEN 2
  ELSE IF StartsWithAt(s, j, RoleLabels[3]) THEN 3
  ELSE 0

\* Offset where  \s*(System|User|Assistant)  ends when "###" starts at a line
\* start at offset i; -1 when the text at i is not such a header start.
HeaderLabelEnd(s, i) ==
  IF ~((i = 0 \/ s[i] = "\n") /\ StartsWithAt(s, i, HASHES)) THEN -1
  ELSE LET j == SkipSpace(s, i + 3)
           k == LabelAt(s, j)
       IN  IF k = 0 THEN -1 ELSE j + Len(RoleLabels[k])

\* End offset of a match of  ^###\s*(System|User|Assistant)\s*\n  at offset i
\* (the offset where the section body starts), or -1.
HeaderEnd(s, i) ==
  LET e == HeaderLabelEnd(s, i)
  IN  IF e < 0 THEN -1 ELSE AfterLastNewline(s, e, SkipSpace(s, e))

\* The label (1..3) of the header matched at offset i.
HeaderLabel(s, i) == LabelAt(s, SkipSpace(s, i + 3))

\* first offset >= i at which the header pattern matches, or -1
FindHeader(s, i) ==
  IF \E j \in i..(Len(s) - 1) : HeaderEnd(s, j) >= 0
  THEN MinOf({ j \in i..(Len(s) - 1) : HeaderEnd(s, j) >= 0 })
  ELSE -1

\* (.*?)(?=\n^###\s*(System|User|Assistant)\s*\n|\Z): the first offset e >= b
\* that is followed by a newline and a header, or the end of the text
BodyEnd(s, b) ==
  MinOf({ e \in b..Len(s) :
            e = Len(s) \/ (s[e + 1] = "\n" /\ HeaderEnd(s, e + 1) >= 0) })

\* The match whose header starts at offset h and whose body is s[b:e].
MatchOf(s, h, b, e) == [ label |-> HeaderLabel(s, h), body |-> Slice(s, b, e), end |-> e ]
MatchAt(s, h) == MatchOf(s, h, HeaderEnd(s, h), BodyEnd(s, HeaderEnd(s, h)))

RECURSIVE FindAll(_, _)
SectionAt(s, h) == << MatchAt(s, h) >> \o FindAll(s, MatchAt(s, h).end)

\* re.findall(pattern, s) from offset i: the (label, body) of each match
FindAll(s, i) ==
  IF FindHeader(s, i) < 0 THEN <<>>
  ELSE SectionAt(s, FindHeader(s, i))

\* text.replace("\r\n", "\n").replace("\r", "\n")
NormalizeNewlines(text) == replace_char(replace_crlf(text), "\r", "\n")

\* Lines 256-267: the content of a section's message.
SectionContent(role, body_text) ==
  IF role = "system"
  THEN Take(AfterMidpoint(_split_into_segments(body_text)), 5)
  ELSE << body_text >>

\* Lines 251-273: one message of _parse_markdown_segments, from a (label, body).
SectionMessage(m) ==
  Msg(role_map[m.label],
      IF role_map[m.label] = "user" THEN << "provider_question" >> ELSE <<>>,
      SectionContent(role_map[m.label], strip(m.body)))

\* The function returns None when no section is found and never an empty
\* list; the empty sequence stands for None.
None == <<>>

MessagesOf(matches) ==
  IF matches = <<>> THEN None
  ELSE [ k \in 1..Len(matches) |-> SectionMessage(matches[k]) ]

_parse_markdown_segments(text) == MessagesOf(FindAll(NormalizeNewlines(text), 0))

\* A variant that synthesizes no assistant message.
FallbackMessagesNoAssistant(text) ==
  << Msg("system", << "provider_question" >>, _split_into_segments(text)),
     Msg("user", << "provider_question" >>,
         << CURRENT_PROVIDER_QUESTION, PROVIDER_QUESTION_VAR >>) >>

\* Lines 300-314: the three synthesized messages of a text with no section.
FallbackMessages(text) ==
  << Msg("system", << "provider_question" >>, _split_into_segments(text)),
     Msg("user", << "provider_question" >>,
         << CURRENT_PROVIDER_QUESTION, PROVIDER_QUESTION_VAR >>),
     Msg("assistant", << "provider_question" >>, << UNDERSTOOD >>) >>

\* A variant that keeps the assistant messages.
DropAssistantKeepsAll(ms) == ms

RECURSIVE DropAssistant(_)
\* Lines 316-323: cleaned = [m for m in parsed if m.role != "assistant"]
DropAssistant(ms) ==
  IF ms = <<>> THEN <<>>
  ELSE (IF Head(ms).role = "assistant" THEN <<>> ELSE << Head(ms) >>)
       \o DropAssistant(Tail(ms))

\* Lines 330-333: forced = _split_into_segments(sys_text), split at the
\* midpoint when that gave fewer than 2 and sys_text is not empty.
Forced(sys_text, forced) ==
  IF Len(forced) < 2 /\ sys_text # <<>> THEN MidpointSplit(sys_text) ELSE forced

Resegment(sys_text) == Take(Forced(sys_text, _split_into_segments(sys_text)), 5)

\* Lines 326-334: a system message with fewer than 2 segments is re-split.
EnsureSystemSegments(m) ==
  IF m.role = "system" /\ Len(m.content) < 2
  THEN [ m EXCEPT !.content = Resegment(join(NLNL, m.content)) ]
  ELSE m

\* Lines 298-323: the parsed sections without the assistant ones, or the
\* three synthesized messages when the text has no section.
ChooseMessages(text, parsed_messages) ==
  IF parsed_messages = None THEN FallbackMessages(text)
  ELSE DropAssistant(parsed_messages)

EnsureAll(built) == [ k \in 1..Len(built) |-> EnsureSystemSegments(built[k]) ]

\* Lines 298-334 of publish_prompt_in_folder: the message list it publishes.
BuildMessages(text) ==
  EnsureAll(ChooseMessages(text, _parse_markdown_segments(text)))

-----------------------------------------------------------------------------
(* Folder resolver: list_children, create_folder,                           *)
(* _extract_folder_id_from_response and the loops of ensure_patient_folder  *)

\* args.patient: the name of the folder
patient_full_name == <<"J", "a", "n", "e", " ", "D", "o", "e">>

\* A body that is no JSON.
Unparsable == [ t |-> "text" ]

\* [x for x in data if isinstance(x, dict)]
DictsOf(l) == SelectSeq(l, IsDict)

\* Lines 67-72: the list under the first of the wrapper keys that holds one,
\* else no children.
WrapperKeys == << "children", "folders", "results" >>
HoldsList(data, key) == IsList(DictGet(data, key, PyNone))
ListUnderWrapper(data) ==
  IF \E k \in 1..3 : HoldsList(data, WrapperKeys[k])
  THEN DictsOf(data.v[WrapperKeys[MinOf({ k \in 1..3 : HoldsList(data, WrapperKeys[k]) })]].v)
  ELSE <<>>

\* What one GET of list_children leads to: the list it returns, or the next
\* endpoint.
Return(l) == [ kind |-> "return", list |-> l ]
TryNext == [ kind |-> "next", list |-> <<>> ]

\* Lines 55-75: a legacy endpoint.
LegacyOutcome(reply) ==
  IF reply.status # 200 THEN TryNext
  ELSE CASE reply.body.t = "list" -> Return(DictsOf(reply.body.v))
         [] reply.body.t = "dict" -> Return(ListUnderWrapper(reply.body))
         [] OTHER -> TryNext

\* Lines 80-88: the workspace-scoped v2 listing.
WorkspaceOutcome(reply) ==
  IF reply.status # 200 THEN TryNext
  ELSE IF reply.body.t = "list" THEN Return(reply.body.v) ELSE Return(<<>>)

\* Lines 90-101: the v2 listing.
GlobalOutcome(reply) ==
  IF reply.status = 200 /\ reply.body.t = "list" THEN Return(reply.body.v)
  ELSE Return(<<>>)

GetOutcome(endpoint, reply) ==
  CASE endpoint \in { "children", "detail" } -> LegacyOutcome(reply)
    [] endpoint = "workspace" -> WorkspaceOutcome(reply)
    [] endpoint = "global" -> GlobalOutcome(reply)

\* Lines 54, 78, 90: the endpoint list_children asks after `endpoint`.
NextEndpoint(endpoint) ==
  CASE endpoint = "children" -> "detail"
    [] endpoint = "detail" -> IF workspace_id # PyNone THEN "workspace" ELSE "global"
    [] endpoint = "workspace" -> "global"

\* Lines 172, 187: f.get("name", "").strip().lower() ==
\* patient_full_name.strip().lower(); a name that is no str has no strip()
\* and the comparison raises AttributeError.
NameOf(f) == DictGet(f, "name", PyStr(<<>>))
NameRaises(f) == NameOf(f).t # "str"
NameMatches(f, name) == lower(strip(NameOf(f).v)) = lower(strip(name))

\* Lines 173, 188: f.get("id") or f.get("folder_id")
EntryId(f) == PyOr(DictGet(f, "id", PyNone), DictGet(f, "folder_id", PyNone))

Scanned(kind, id) == [ kind |-> kind, id |-> id ]

RECURSIVE MatchScan(_, _, _)
\* Lines 171-177 and 186-192: the loop over the listed entries from entry k
\* on.  It ends at the first entry whose name matches: "found" with its id
\* when int() takes it, "bad_id" when int() raises; "none" when no name
\* matches; "raise" when a name comparison raises.
MatchScan(entries, name, k) ==
  IF k > Len(entries) THEN Scanned("none", 0)
  ELSE IF ~IsDict(entries[k]) THEN MatchScan(entries, name, k + 1)
  ELSE IF NameRaises(entries[k]) THEN Scanned("raise", 0)
  ELSE IF ~NameMatches(entries[k], name) THEN MatchScan(entries, name, k + 1)
  ELSE IF IntOk(EntryId(entries[k])) THEN Scanned("found", IntOf(EntryId(entries[k])))
  ELSE Scanned("bad_id", 0)

\* Lines 143-148: the first of resp["id"], resp["folder_id"] that int() takes.
HasIntUnder(obj, key) == key \in DOMAIN obj.v /\ IntOk(obj.v[key])
ExtractDirect(obj) ==
  IF HasIntUnder(obj, "id") THEN PyInt(IntOf(obj.v["id"]))
  ELSE IF HasIntUnder(obj, "folder_id") THEN PyInt(IntOf(obj.v["folder_id"]))
  ELSE PyNone

DictWrappers == << "folder", "data", "result" >>
ListWrappers == << "data", "results" >>

\* isinstance(nested_list, list) and nested_list
HoldsItems(obj, key) ==
  HoldsList(obj, key) /\ Len(obj.v[key].v) > 0

RECURSIVE _extract_folder_id_from_response(_)
\* Lines 150-155: the first dict wrapper whose dict gives an id.
GivesId(obj, key) ==
  /\ IsDict(DictGet(obj, key, PyNone))
  /\ _extract_folder_id_from_response(obj.v[key]) # PyNone
ExtractNested(obj) ==
  IF \E k \in 1..3 : GivesId(obj, DictWrappers[k])
  THEN _extract_folder_id_from_response(
         obj.v[DictWrappers[MinOf({ k \in 1..3 : GivesId(obj, DictWrappers[k]) })]])
  ELSE PyNone

\* Lines 157-160: the first element of the first list wrapper that holds
\* items decides.
ExtractFromList(obj) ==
  IF \E k \in 1..2 : HoldsItems(obj, ListWrappers[k])
  THEN _extract_folder_id_from_response(
         obj.v[ListWrappers[MinOf({ k \in 1..2 : HoldsItems(obj, ListWrappers[k]) })]].v[1])
  ELSE PyNone

_extract_folder_id_from_response(obj) ==
  IF ~IsDict(obj) THEN PyNone
  ELSE IF ExtractDirect(obj) # PyNone THEN ExtractDirect(obj)
  ELSE IF ExtractNested(obj) # PyNone THEN ExtractNested(obj)
  ELSE ExtractFromList(obj)

\* No create_folder call has returned.
NoCreate == [ status |-> 0, body |-> PyNone ]

\* The folder stage has not run.
NoFolderStage ==
  /\ remote = <<>>
  /\ workspace_id = PyNone
  /\ flog = <<>>
  /\ existing = <<>>
  /\ existing_after = <<>>
  /\ created = NoCreate
  /\ folder_id = PyNone
  /\ returned = <<>>

\* The generator has not run.
NoGenerator ==
  /\ type_index = 0
  /\ retry_count = 0
  /\ interaction = PyNone
  /\ outputs = <<>>
  /\ results = <<>>

-----------------------------------------------------------------------------
(* Inputs of the segmenter runs                                            *)

SegAlphabet == {"a", " ", "\n", "-"}

RECURSIVE TextsUpTo(_)
TextsUpTo(n) ==
  IF n = 0 THEN { <<>> }
  ELSE LET S == TextsUpTo(n - 1)
       IN  S \cup { Append(s, c) : s \in { t \in S : Len(t) = n - 1 }, c \in SegAlphabet }

ShortTexts == TextsUpTo(MaxLen)

\* parts "1", "2", ... joined by one separator: texts with many parts
PartNames == <<"1", "2", "3", "4", "5", "6", "7", "8", "9">>
Separators ==
  { <<"\n", "\n">>, <<"\n", "-", "-", "-", "\n">>,
    <<"\n", " ", "-", "-", "-", "-", " ", "\n", "\n">>, <<" ">>, <<"x", "y">> }
Numbered(n, sep) == join(sep, [k \in 1..n |-> << PartNames[k] >>])
RepeatedTexts == { Numbered(n, sep) : n \in 1..MaxParts, sep \in Separators }

SegTexts == ShortTexts \cup RepeatedTexts

NoValue == << >>

-----------------------------------------------------------------------------
(* Inputs of the builder runs                                              *)

\* A document of the block family is up to MaxBlocks blocks, each a header
\* line (or none) followed by a body.
BlockHeaders ==
  { <<>>,
    HASHES \o <<" ">> \o System \o NL,
    HASHES \o <<" ">> \o User \o NL,
    HASHES \o <<" ">> \o Assistant \o NL }
BlockBodies ==
  { <<>>, <<"\n">>, <<"a", "\n", "\n", "b", "\n">> }
Blocks == { h \o b : h \in BlockHeaders, b \in BlockBodies }

RECURSIVE BlockDocs(_)
BlockDocs(n) ==
  IF n = 0 THEN { <<>> }
  ELSE LET D == BlockDocs(n - 1) IN D \cup { d \o b : d \in D, b \in Blocks }

\* main, lines 612-617: the text of the placeholder prompts.
empty_content ==
  <<"#", "#", "#", " ", "S", "y", "s", "t", "e", "m", "\n", "\n", "(", "e",
    "m", "p", "t", "y", " ", "p", "l", "a", "c", "e", "h", "o", "l", "d",
    "e", "r", ")", "\n", "\n", "-", "-", "-", "\n", "\n", "#", "#", "#",
    " ", "U", "s", "e", "r", "\n", "\n", "{", "{", " ", "p", "r", "o", "v",
    "i", "d", "e", "r", "_", "q", "u", "e", "s", "t", "i", "o", "n", " ",
    "}", "}", "\n">>

\* the shape convert_to_jinja2_format writes
JinjaDoc ==
  <<"#", "#", "#", " ", "S", "y", "s", "t", "e", "m", "\n", "\n", "a", "b",
    "\n", "\n", "-", "-", "-", "\n", "\n", "#", "#", "#", " ", "U", "s",
    "e", "r", "\n", "\n", "{", "{", " ", "p", "r", "o", "v", "i", "d", "e",
    "r", "_", "q", "u", "e", "s", "t", "i", "o", "n", " ", "}", "}", "\n",
    "\n", "-", "-", "-", "\n", "\n", "#", "#", "#", " ", "A", "s", "s",
    "i", "s", "t", "a", "n", "t", "\n", "\n", "(", "r", "e", "p", "l", "y",
    ")", "\n">>

SpecialDocs ==
  {
    empty_content,
    JinjaDoc,
    \* header variants: no blank after ###, trailing blanks, CRLF line ends
    <<"#", "#", "#", "S", "y", "s", "t", "e", "m", " ", "\r", "\n", "a", "b",
      "\r", "\n", "\r", "\n", "c", "d", "\r", "\n", "#", "#", "#", " ", " ",
      "U", "s", "e", "r", "\t", "\n", " ", "q", " ", "\r", "#", "#", "#",
      " ", "A", "s", "s", "i", "s", "t", "a", "n", "t", "\n">>,
    \* labels the pattern does not recognize
    <<"#", "#", "#", " ", "s", "y", "s", "t", "e", "m", "\n", "a", "b", "\n",
      "#", "#", "#", " ", "O", "t", "h", "e", "r", "\n", "c", "d", "\n">>,
    \* a header with no newline after it
    <<"#", "#", "#", " ", "S", "y", "s", "t", "e", "m">>,
    \* a header that does not start its line
    <<"x", "#", "#", "#", " ", "S", "y", "s", "t", "e", "m", "\n", "a", "b",
      "\n">>,
    \* text before the first header
    <<"i", "n", "t", "r", "o", "\n", "#", "#", "#", " ", "U", "s", "e", "r",
      "\n", "q", "\n">>,
    \* one long paragraph under a header
    <<"#", "#", "#", " ", "S", "y", "s", "t", "e", "m", "\n", "a", "b", "c",
      "d", "e", "f", "g", "h", "i", "j", "k", "l", "m", "n", "o", "p", "\n">>
  }

BuildDocs == BlockDocs(MaxBlocks) \cup SpecialDocs \cup RepeatedTexts


-----------------------------------------------------------------------------
(* Segmenter runs: one call of _split_into_segments on one text            *)

InitSeg ==
  /\ pc = "seg_call"
  /\ content_text \in SegTexts
  /\ segments = NoValue
  /\ force_legacy = FALSE
  /\ dry_run = FALSE
  /\ messages = <<>>
  /\ sent = <<>>
  /\ resp = <<>>
  /\ result = NoValue
  /\ call = NoValue
  /\ service = {}
  /\ files = <<>>
  /\ idx = 0
  /\ published = <<>>
  /\ extras = <<>>
  /\ exit_code = -1
  /\ NoFolderStage
  /\ NoGenerator

Segment ==
  /\ pc = "seg_call"
  /\ segments' = _split_into_segments(content_text)
  /\ pc' = "seg_done"
  /\ UNCHANGED folder_vars
  /\ UNCHANGED generator_vars
  /\ UNCHANGED << content_text, force_legacy, dry_run, messages, sent, resp,
                  result, call, service, files, idx, published, extras,
                  exit_code >>

NextSeg == Segment

SpecSeg == InitSeg /\ [][NextSeg]_vars

-----------------------------------------------------------------------------
(* Builder runs: the message list publish_prompt_in_folder builds for one  *)
(* document                                                                 *)

InitBuild ==
  /\ pc = "build_call"
  /\ content_text \in BuildDocs
  /\ segments = NoValue
  /\ force_legacy = FALSE
  /\ dry_run = FALSE
  /\ messages = <<>>
  /\ sent = <<>>
  /\ resp = <<>>
  /\ result = NoValue
  /\ call = NoValue
  /\ service = {}
  /\ files = <<>>
  /\ idx = 0
  /\ published = <<>>
  /\ extras = <<>>
  /\ exit_code = -1
  /\ NoFolderStage
  /\ NoGenerator

Build ==
  /\ pc = "build_call"
  /\ messages' = BuildMessages(content_text)
  /\ pc' = "build_done"
  /\ UNCHANGED folder_vars
  /\ UNCHANGED generator_vars
  /\ UNCHANGED << content_text, segments, force_legacy, dry_run, sent, resp,
                  result, call, service, files, idx, published, extras,
                  exit_code >>

NextBuild == Build

SpecBuild == InitBuild /\ [][NextBuild]_vars

-----------------------------------------------------------------------------
(* Remote service: what one POST of the publish call can come back with    *)

\* A reply is [status, body]; a body is JSON text or text that is no JSON.
\* TransportError stands for client.post raising (timeout, connection
\* failure): no reply at all.
JsonWithId == [ kind |-> "json", value |-> [ id |-> 7 ] ]
JsonNoId == [ kind |-> "json", value |-> [ msg |-> "invalid" ] ]
PlainText == [ kind |-> "text", value |-> "Bad Gateway" ]
TransportError == [ status |-> -1, body |-> [ kind |-> "none", value |-> "" ] ]

Statuses == { 200, 201, 204, 404 }
Bodies == { JsonWithId, PlainText }
Replies ==
  { [ status |-> st, body |-> b ] : st \in Statuses, b \in Bodies }
  \cup { TransportError }

\* The replies of the orchestrator runs: a success with an id, a success
\* without one, a failure, a transport error.
MainReplies ==
  { [ status |-> 200, body |-> JsonWithId ], [ status |-> 201, body |-> JsonNoId ],
    [ status |-> 200, body |-> PlainText ], [ status |-> 404, body |-> JsonNoId ],
    TransportError }

\* try: data = r.json()  except Exception: data = {"raw": r.text}
JsonOrRaw(body) ==
  IF body.kind = "json" THEN body.value ELSE [ raw |-> body.value ]

\* A variant that takes every 2xx status.
IsSuccessAny2xx(status) == status \in 200..299

\* r.status_code in (200, 201)
IsSuccess(status) == status \in { 200, 201 }

-----------------------------------------------------------------------------
(* Publisher: publish_prompt_in_folder                                      *)

Attempts == { "v2", "rest", "legacy", "folder", "completion" }

NoReply == [ status |-> 0, data |-> NoValue ]

\* Python truthiness of an optional str / dict argument (None is "None").
Truthy(v) == v \notin { "None", "" }

EmptyDict == [ x \in {} |-> x ]
Optional(key, v) == IF Truthy(v) THEN key :> v ELSE EmptyDict

\* Lines 339-350.
body_v2 ==
  [ folder_id |-> call.folder_id, prompt_name |-> call.prompt_name,
    prompt_template |-> [ type |-> "chat", messages |-> messages ] ]
  @@ Optional("commit_message", call.commit_message)
  @@ Optional("metadata", call.metadata)

\* A variant that sends the messages as built.
rest_messagesAsBuilt == messages

\* Lines 390-403: every message with its segments joined into one.
rest_messages ==
  [ k \in 1..Len(messages) |->
      [ messages[k] EXCEPT !.content = << join(NLNL, messages[k].content) >> ] ]

RestEnvelope ==
  [ prompt_name |-> call.prompt_name, folder_id |-> call.folder_id,
    prompt_template |->
      [ type |-> "chat", messages |-> rest_messages, input_variables |-> <<>>,
        dataset_examples |-> <<>> ] ]
  @@ Optional("commit_message", call.commit_message)
  @@ Optional("metadata", call.metadata)

\* Lines 411-436.
rest_body == [ prompt_template |-> RestEnvelope, prompt_version |-> RestEnvelope ]

\* A variant that sends the collapsed messages.
payload_chatCollapsed ==
  [ name |-> call.prompt_name, folder_id |-> call.folder_id,
    messages |-> rest_messages ]

\* Lines 452-456.
payload_chat ==
  [ name |-> call.prompt_name, folder_id |-> call.folder_id, messages |-> messages ]

\* Lines 475-478.
payload_folder_chat == [ name |-> call.prompt_name, messages |-> messages ]

RECURSIVE LastRoleText(_, _, _)
\* Lines 503-509: the joined, stripped text of the last message of `role`
\* whose text is not empty; `default` when there is none.
LastRoleText(ms, role, default) ==
  IF ms = <<>> THEN default
  ELSE LET m == ms[Len(ms)]
           txt == strip(join(NLNL, m.content))
       IN  IF m.role = role /\ txt # <<>> THEN txt
           ELSE LastRoleText(SubSeq(ms, 1, Len(ms) - 1), role, default)

\* A variant without the "(continued)" filler.
completion_payloadNoFiller ==
  [ name |-> call.prompt_name, folder_id |-> call.folder_id,
    messages |->
      << [ role |-> "system", content |-> << LastRoleText(messages, "system", <<>>) >> ],
         [ role |-> "user",
           content |-> << LastRoleText(messages, "user", PROVIDER_QUESTION_VAR) >> ] >> ]

\* Lines 501-523.
completion_payload ==
  LET system_text == LastRoleText(messages, "system", <<>>)
      user_text == LastRoleText(messages, "user", PROVIDER_QUESTION_VAR)
  IN  [ name |-> call.prompt_name, folder_id |-> call.folder_id,
        messages |->
          << [ role |-> "system", content |-> << system_text >> ],
             [ role |-> "user", content |-> << user_text, CONTINUED >> ] >> ]

\* Lines 294, 410, 457, 474: the endpoint of each attempt.
Url(a) ==
  CASE a = "v2" -> << "API_BASE", "/prompt-templates" >>
    [] a = "rest" -> << "API_BASE_LEGACY", "/rest/prompt-templates" >>
    [] a = "legacy" -> << "API_BASE_LEGACY", "/prompt-templates" >>
    [] a = "folder" ->
         << "API_BASE_LEGACY", "/folders/", call.folder_id, "/prompt-templates" >>
    [] a = "completion" -> << "API_BASE_LEGACY", "/prompt-templates" >>

Payload(a) ==
  CASE a = "v2" -> body_v2
    [] a = "rest" -> rest_body
    [] a = "legacy" -> payload_chat
    [] a = "folder" -> payload_folder_chat
    [] a = "completion" -> completion_payload

\* A variant that goes from the legacy attempt straight to the completion one.
AfterFailureSkipsFolder(a) ==
  CASE a = "v2" -> "rest"
    [] a = "rest" -> "legacy"
    [] a = "legacy" -> "completion"
    [] a = "folder" -> "completion"
    [] a = "completion" -> "returned"

\* A variant that makes a failed attempt again.
AfterFailureRetries(a) == a

\* Where the call goes when attempt a was answered with a failure status.
AfterFailure(a) ==
  CASE a = "v2" -> "rest"
    [] a = "rest" -> "legacy"
    [] a = "legacy" -> "folder"
    [] a = "folder" -> "completion"
    [] a = "completion" -> "returned"

\* A variant that ignores force_legacy.
FirstAttemptAlwaysV2 == "v2"

\* Line 358: the first attempt of a call that is no dry run.
FirstAttempt == IF force_legacy THEN "rest" ELSE "v2"

\* A variant that returns the body of the last attempt alone.
FailureReportLastBody(r) == r["completion"].data

\* Line 535: the value returned when the completion attempt failed too.
FailureReport(r) ==
  [ rest |-> r["rest"].data, legacy |-> r["legacy"].data,
    folder |-> r["folder"].data, completion |-> r["completion"].data ]

\* A variant that returns the body of the rest attempt (dataR) everywhere.
SuccessResultOfRest(r, a) == r["rest"].data

\* Lines 383, 447, 469, 489, 532: return data, the body attempt a received.
SuccessResult(r, a) == r[a].data

\* Line 355.
DryRunResult ==
  [ dry_run |-> TRUE, folder_id |-> call.folder_id, prompt_name |-> call.prompt_name ]

\* A variant without the dry-run return.
AfterBuildNoDryRun == FirstAttempt

\* Lines 352-358: a dry run returns before the first attempt.
AfterBuild == IF dry_run THEN "returned" ELSE FirstAttempt

\* Lines 294-355: build the messages; a dry run returns here.
PublishBuild ==
  /\ pc = "call"
  /\ messages' = BuildMessages(content_text)
  /\ result' = IF dry_run THEN DryRunResult ELSE result
  /\ pc' = AfterBuild
  /\ UNCHANGED folder_vars
  /\ UNCHANGED generator_vars
  /\ UNCHANGED << content_text, segments, force_legacy, dry_run, sent, resp,
                  call, service, files, idx, published, extras, exit_code >>

\* One attempt: with httpx.Client(...) as c: r = c.post(url, json=payload);
\* data = r.json() or {"raw": r.text}; return data on 200/201, else go on.
\* client.post is not inside a try: when it raises, the call raises.
Post(a) ==
  /\ pc = a
  /\ sent' = Append(sent, [ attempt |-> a, url |-> Url(a), json |-> Payload(a) ])
  /\ \E reply \in service :
       IF reply = TransportError
       THEN /\ pc' = "raised"
            /\ UNCHANGED << resp, result >>
       ELSE LET data == JsonOrRaw(reply.body)
                resp2 == [ resp EXCEPT ![a] = [ status |-> reply.status, data |-> data ] ]
            IN  /\ resp' = resp2
                /\ IF IsSuccess(reply.status)
                   THEN /\ result' = SuccessResult(resp2, a)
                        /\ pc' = "returned"
                   ELSE /\ pc' = AfterFailure(a)
                        /\ result' = IF a = "completion" THEN FailureReport(resp2)
                                     ELSE result
  /\ UNCHANGED folder_vars
  /\ UNCHANGED generator_vars
  /\ UNCHANGED << content_text, segments, force_legacy, dry_run, messages, call,
                  service, files, idx, published, extras, exit_code >>

PostV2 == Post("v2")                  \* lines 357-387
PostRest == Post("rest")              \* lines 409-449
PostLegacy == Post("legacy")          \* lines 451-471
PostFolder == Post("folder")          \* lines 473-491
PostCompletion == Post("completion")  \* lines 493-535

-----------------------------------------------------------------------------
(* Publisher runs: one call of publish_prompt_in_folder                     *)

Hello == <<"H", "e", "l", "l", "o", " ", "w", "o", "r", "l", "d">>

PublishDocs == { <<>>, Hello } \cup SpecialDocs

CallArgs ==
  { [ folder_id |-> 42, prompt_name |-> "Jane Doe - Short",
      commit_message |-> "Initial import", metadata |-> "meta" ],
    [ folder_id |-> 42, prompt_name |-> "Jane Doe - Short",
      commit_message |-> "None", metadata |-> "None" ] }

Init ==
  /\ pc = "call"
  /\ content_text \in PublishDocs
  /\ call \in CallArgs
  /\ force_legacy \in BOOLEAN
  /\ dry_run \in BOOLEAN
  /\ service = Replies
  /\ segments = NoValue
  /\ messages = <<>>
  /\ sent = <<>>
  /\ resp = [ a \in Attempts |-> NoReply ]
  /\ result = NoValue
  /\ files = <<>>
  /\ idx = 0
  /\ published = <<>>
  /\ extras = <<>>
  /\ exit_code = -1
  /\ NoFolderStage
  /\ NoGenerator

Next ==
  \/ PublishBuild
  \/ PostV2
  \/ PostRest
  \/ PostLegacy
  \/ PostFolder
  \/ PostCompletion

Spec == Init /\ [][Next]_vars

-----------------------------------------------------------------------------
(* Folder service: what the GET and POST requests of the folder stage can   *)
(* come back with                                                           *)

\* A listed folder.
Entry(id, name) == PyDict([ id |-> PyInt(id), name |-> PyStr(name) ])

OtherName == <<"O", "t", "h", "e", "r">>
SpacedName == <<" ", "j", "a", "n", "e", " ", "D", "O", "E", " ">>

\* What the service lists under the parent before the run.
InitialListings ==
  { <<>>,
    << Entry(7, patient_full_name) >>,
    << Entry(3, OtherName), Entry(7, SpacedName) >>,
    \* the first folder of the name carries no id
    << PyDict([ name |-> PyStr(patient_full_name) ]), Entry(7, patient_full_name) >>,
    \* the id is under folder_id, written as text
    << PyDict([ folder_id |-> PyStr(<<"7">>), name |-> PyStr(patient_full_name) ]) >>,
    \* a name that is null
    << PyDict([ id |-> PyInt(3), name |-> PyNone ]), Entry(7, patient_full_name) >>,
    \* an element that is no object; an id of 0
    << PyStr(<<"x">>),
       PyDict([ id |-> PyInt(0), folder_id |-> PyInt(7), name |-> PyStr(patient_full_name) ]) >>,
    \* an entry without a name
    << PyDict([ id |-> PyInt(3) ]) >> }

\* The replies to a GET of list_children when the service holds `folders`:
\* the list, the list under a wrapper key, a folder object, a body that is
\* no JSON, a failure status, no reply at all.
GetReplies(folders) ==
  { [ status |-> 200, body |-> PyList(folders) ],
    [ status |-> 200, body |-> PyDict([ children |-> PyNone, results |-> PyList(folders) ]) ],
    [ status |-> 200, body |-> PyDict([ id |-> PyInt(100), name |-> PyStr(<<"p">>) ]) ],
    [ status |-> 200, body |-> Unparsable ],
    [ status |-> 404, body |-> PyDict([ message |-> PyStr(<<"x">>) ]) ],
    TransportError }

\* The id the service gives the next folder it creates.
NewId(folders) == 20 + Len(folders)

CreateReply(status, body, creates) ==
  [ status |-> status, body |-> body, creates |-> creates ]

\* The replies to a create request: the folder is created and its id comes
\* back directly, nested, in a list, not at all, or in a body that is no JSON;
\* the request is refused, without or with an id in the body; no reply.
CreateReplies(folders) ==
  { CreateReply(201, PyDict([ id |-> PyInt(NewId(folders)) ]), TRUE),
    CreateReply(200, PyDict([ folder |-> PyDict([ id |-> PyInt(NewId(folders)) ]) ]), TRUE),
    CreateReply(201, PyDict([ data |-> PyList(<< PyDict([ id |-> PyInt(NewId(folders)) ]) >>) ]), TRUE),
    CreateReply(201, PyDict([ success |-> PyInt(1) ]), TRUE),
    CreateReply(201, Unparsable, TRUE),
    CreateReply(400, PyDict([ error |-> PyStr(<<"x">>) ]), FALSE),
    CreateReply(409, PyDict([ error |-> PyStr(<<"x">>), id |-> PyInt(99) ]), FALSE),
    CreateReply(-1, Unparsable, FALSE) }

\* Lines 114-117, 129-132: body = r.json(), or {"raw": r.text}
BodyOrRaw(body) ==
  IF body = Unparsable THEN PyDict([ raw |-> PyStr(<<"x">>) ]) ELSE body

-----------------------------------------------------------------------------
(* Folder stage: ensure_patient_folder                                      *)

\* The variables of the publish calls and of main's loops.
publish_vars ==
  << content_text, segments, force_legacy, dry_run, messages, sent, resp, result,
     call, service, files, idx, published, extras >>

GetPc(endpoint) ==
  CASE endpoint = "children" -> "get_children"
    [] endpoint = "detail" -> "get_detail"
    [] endpoint = "workspace" -> "get_workspace"
    [] endpoint = "global" -> "get_global"

CreatePc(endpoint) ==
  CASE endpoint = "workspace" -> "post_workspace"
    [] endpoint = "global" -> "post_global"

\* The listing pass under way: the second one comes after create_folder.
Pass == IF \E k \in 1..Len(flog) : flog[k].method = "POST" THEN 2 ELSE 1

\* A variant that goes to the global create at once.
FirstCreateGlobal == "post_global"

\* Lines 108, 124: the first create request.
FirstCreate == IF workspace_id # PyNone THEN "post_workspace" ELSE "post_global"

\* return v
EnsureReturns(v) ==
  /\ folder_id' = v
  /\ pc' = "ensure_returned"

\* an exception leaves ensure_patient_folder
EnsureRaises ==
  /\ pc' = "ensure_raised"
  /\ UNCHANGED folder_id

\* Lines 171-180: the first loop returns the id found; otherwise the folder
\* is created.
AfterFirstListing(scan) ==
  CASE scan.kind = "found" -> EnsureReturns(PyInt(scan.id))
    [] scan.kind = "raise" -> EnsureRaises
    [] OTHER -> pc' = FirstCreate /\ UNCHANGED folder_id

\* Lines 186-193: the second loop returns the id found, or None.
AfterSecondListing(scan) ==
  CASE scan.kind = "found" -> EnsureReturns(PyInt(scan.id))
    [] scan.kind = "raise" -> EnsureRaises
    [] OTHER -> EnsureReturns(PyNone)

\* list_children returned l.
Listed(l) ==
  IF Pass = 1
  THEN /\ existing' = l
       /\ UNCHANGED existing_after
       /\ AfterFirstListing(MatchScan(l, patient_full_name, 1))
  ELSE /\ existing_after' = l
       /\ UNCHANGED existing
       /\ AfterSecondListing(MatchScan(l, patient_full_name, 1))

\* Lines 181-185: the id of the create response is returned; without one the
\* children are listed again.
AfterCreate(fid) ==
  IF fid # PyNone THEN EnsureReturns(fid)
  ELSE pc' = "get_children" /\ UNCHANGED folder_id

\* Lines 164-167: the call starts with the first listing pass.
EnsureCall ==
  /\ pc = "ensure_call"
  /\ flog' = <<>>
  /\ existing' = <<>>
  /\ existing_after' = <<>>
  /\ created' = NoCreate
  /\ folder_id' = PyNone
  /\ pc' = "get_children"
  /\ UNCHANGED << remote, workspace_id, returned, exit_code >>
  /\ UNCHANGED publish_vars
  /\ UNCHANGED generator_vars

\* One GET of list_children (lines 55, 80, 91) and what follows it up to the
\* next request.  client.get is in no try: when it raises, list_children
\* raises, which the first pass catches (lines 166-169: existing = []) and
\* the second pass does not (line 185).
Get(endpoint) ==
  /\ pc = GetPc(endpoint)
  /\ flog' = Append(flog, [ method |-> "GET", to |-> endpoint ])
  /\ \E reply \in GetReplies(remote) :
       IF reply = TransportError
       THEN IF Pass = 1 THEN Listed(<<>>)
            ELSE EnsureRaises /\ UNCHANGED << existing, existing_after >>
       ELSE IF GetOutcome(endpoint, reply).kind = "next"
            THEN /\ pc' = GetPc(NextEndpoint(endpoint))
                 /\ UNCHANGED << existing, existing_after, folder_id >>
            ELSE Listed(GetOutcome(endpoint, reply).list)
  /\ UNCHANGED << remote, workspace_id, created, returned, exit_code >>
  /\ UNCHANGED publish_vars
  /\ UNCHANGED generator_vars

GetChildren == Get("children")    \* line 50
GetDetail == Get("detail")        \* line 51
GetWorkspace == Get("workspace")  \* lines 78-88
GetGlobal == Get("global")        \* lines 90-101

\* One POST of create_folder (lines 111, 126) and what follows it up to the
\* next request.  client.post is in no try.  A workspace-scoped create that
\* is not answered 200/201 falls through to the global one; the body of the
\* global one is returned whatever its status.
Create(endpoint) ==
  /\ pc = CreatePc(endpoint)
  /\ flog' = Append(flog, [ method |-> "POST", to |-> endpoint ])
  /\ \E reply \in CreateReplies(remote) :
       IF reply.status = -1
       THEN /\ EnsureRaises
            /\ UNCHANGED << remote, created >>
       ELSE /\ remote' = IF reply.creates
                         THEN Append(remote, Entry(NewId(remote), patient_full_name))
                         ELSE remote
            /\ IF endpoint = "workspace" /\ ~IsSuccess(reply.status)
               THEN /\ pc' = "post_global"
                    /\ UNCHANGED << created, folder_id >>
               ELSE /\ created' = [ status |-> reply.status, body |-> BodyOrRaw(reply.body) ]
                    /\ AfterCreate(_extract_folder_id_from_response(BodyOrRaw(reply.body)))
  /\ UNCHANGED << workspace_id, existing, existing_after, returned, exit_code >>
  /\ UNCHANGED publish_vars
  /\ UNCHANGED generator_vars

CreateInWorkspace == Create("workspace")  \* lines 108-120
CreateGlobal == Create("global")          \* lines 123-137

-----------------------------------------------------------------------------
(* Folder runs: ensure_patient_folder called MaxCalls times in a row with   *)
(* the same parent and name                                                 *)

\* What is kept of a call that returned: its value, the requests it sent and
\* what the service listed when it returned.
Returned == [ value |-> folder_id, requests |-> flog, listed |-> remote ]

\* The caller calls again.
EnsureAgain ==
  /\ pc = "ensure_returned"
  /\ Len(returned) < MaxCalls - 1
  /\ returned' = Append(returned, Returned)
  /\ pc' = "ensure_call"
  /\ UNCHANGED << remote, workspace_id, flog, existing, existing_after, created,
                  folder_id, exit_code >>
  /\ UNCHANGED publish_vars
  /\ UNCHANGED generator_vars

InitFolder ==
  /\ pc = "ensure_call"
  /\ remote \in InitialListings
  /\ workspace_id \in { PyNone, PyInt(5) }
  /\ flog = <<>>
  /\ existing = <<>>
  /\ existing_after = <<>>
  /\ created = NoCreate
  /\ folder_id = PyNone
  /\ returned = <<>>
  /\ content_text = <<>>
  /\ segments = NoValue
  /\ force_legacy = FALSE
  /\ dry_run = FALSE
  /\ messages = <<>>
  /\ sent = <<>>
  /\ resp = <<>>
  /\ result = NoValue
  /\ call = NoValue
  /\ service = {}
  /\ files = <<>>
  /\ idx = 0
  /\ published = <<>>
  /\ extras = <<>>
  /\ exit_code = -1
  /\ NoGenerator

NextFolder ==
  \/ EnsureCall
  \/ GetChildren
  \/ GetDetail
  \/ GetWorkspace
  \/ GetGlobal
  \/ CreateInWorkspace
  \/ CreateGlobal
  \/ EnsureAgain

SpecFolder == InitFolder /\ [][NextFolder]_vars

-----------------------------------------------------------------------------
(* Orchestrator: main(), from the folder stage on (lines 564-640)           *)

\* Lines 584: the labels of the three documents.
Labels == << "short", "medium", "long" >>

\* Lines 579-581 and 604-611: the prompt names, documents first.
PromptNames ==
  << "Jane Doe - Short", "Jane Doe - Medium", "Jane Doe - Long",
     "Jane Doe - Negative5Plus", "Jane Doe - Negative3to5", "Jane Doe - Very Short",
     "Jane Doe - Response Length", "Jane Doe - Negativity Analysis",
     "Jane Doe - Empathy Analysis" >>

IsDocument(i) == i \in 1..Len(Labels)
IsPlaceholder(i) == i \in (Len(Labels) + 1)..Len(PromptNames)

\* "id" in resp, for a dict
HasId(d) == "id" \in DOMAIN d

\* Lines 565-567: with --folder-id the folder discovery is skipped, without
\* it ensure_patient_folder is called.
MainFolder ==
  /\ pc = "main_start"
  /\ pc' = IF folder_id # PyNone THEN "main" ELSE "ensure_call"
  /\ UNCHANGED folder_vars
  /\ UNCHANGED generator_vars
  /\ UNCHANGED publish_vars
  /\ UNCHANGED exit_code

\* A variant that goes on to the documents loop whatever the resolver returned.
MainFolderReturnedGoesOn ==
  /\ pc = "ensure_returned"
  /\ pc' = "main"
  /\ flog' = <<>>
  /\ existing' = <<>>
  /\ existing_after' = <<>>
  /\ created' = NoCreate
  /\ UNCHANGED << remote, workspace_id, folder_id, returned, exit_code >>
  /\ UNCHANGED publish_vars
  /\ UNCHANGED generator_vars

\* Lines 567-571: without a folder id the error is printed and the run ends
\* with 2; the locals of the call are gone.
MainFolderReturned ==
  /\ pc = "ensure_returned"
  /\ IF folder_id = PyNone
     THEN exit_code' = 2 /\ pc' = "exit"
     ELSE pc' = "main" /\ UNCHANGED exit_code
  /\ flog' = <<>>
  /\ existing' = <<>>
  /\ existing_after' = <<>>
  /\ created' = NoCreate
  /\ UNCHANGED << remote, workspace_id, folder_id, returned >>
  /\ UNCHANGED publish_vars
  /\ UNCHANGED generator_vars

\* Line 567: the call is in no try; an exception of ensure_patient_folder
\* ends the process with a traceback (exit status 1).
MainFolderRaised ==
  /\ pc = "ensure_raised"
  /\ exit_code' = 1
  /\ pc' = "crashed"
  /\ UNCHANGED folder_vars
  /\ UNCHANGED generator_vars
  /\ UNCHANGED publish_vars

\* Lines 585-596 and 621-631: the call of publish_prompt_in_folder for prompt idx.
MainCall ==
  /\ pc = "main"
  /\ idx \in 1..Len(PromptNames)
  /\ content_text' = IF IsDocument(idx) THEN files[idx] ELSE empty_content
  /\ call' = [ folder_id |-> folder_id.v, prompt_name |-> PromptNames[idx],
               commit_message |-> "Initial import from vignette generator",
               metadata |-> "meta" ]
  /\ messages' = <<>>
  /\ sent' = <<>>
  /\ resp' = [ a \in Attempts |-> NoReply ]
  /\ result' = NoValue
  /\ pc' = "call"
  /\ UNCHANGED folder_vars
  /\ UNCHANGED generator_vars
  /\ UNCHANGED << segments, force_legacy, dry_run, service, files, idx, published,
                  extras, exit_code >>

\* A variant that takes every response of a document's call as published.
MainDocReturnedGoesOn ==
  /\ pc = "returned"
  /\ IsDocument(idx)
  /\ published' = Append(published, Labels[idx])
  /\ idx' = idx + 1
  /\ pc' = "main"
  /\ UNCHANGED folder_vars
  /\ UNCHANGED generator_vars
  /\ UNCHANGED << content_text, segments, force_legacy, dry_run, messages, sent,
                  resp, result, call, service, files, extras, exit_code >>

\* Lines 597-601: a document's response without "id" ends the run with 3.
MainDocReturned ==
  /\ pc = "returned"
  /\ IsDocument(idx)
  /\ IF ~HasId(result)
     THEN /\ exit_code' = 3
          /\ pc' = "exit"
          /\ UNCHANGED << idx, published >>
     ELSE /\ published' = Append(published, Labels[idx])
          /\ idx' = idx + 1
          /\ pc' = "main"
          /\ UNCHANGED exit_code
  /\ UNCHANGED folder_vars
  /\ UNCHANGED generator_vars
  /\ UNCHANGED << content_text, segments, force_legacy, dry_run, messages, sent,
                  resp, result, call, service, files, extras >>

\* Lines 584-596: the documents' calls are in no try; an exception of the
\* call ends the process with a traceback (exit status 1).
MainDocRaised ==
  /\ pc = "raised"
  /\ IsDocument(idx)
  /\ exit_code' = 1
  /\ pc' = "crashed"
  /\ UNCHANGED folder_vars
  /\ UNCHANGED generator_vars
  /\ UNCHANGED << content_text, segments, force_legacy, dry_run, messages, sent,
                  resp, result, call, service, files, idx, published, extras >>

\* Line 632: whatever the call returned is recorded; the loop goes on.
MainExtraReturned ==
  /\ pc = "returned"
  /\ IsPlaceholder(idx)
  /\ extras' = Append(extras, [ name |-> PromptNames[idx], kind |-> "response" ])
  /\ idx' = idx + 1
  /\ pc' = "main"
  /\ UNCHANGED folder_vars
  /\ UNCHANGED generator_vars
  /\ UNCHANGED << content_text, segments, force_legacy, dry_run, messages, sent,
                  resp, result, call, service, files, published, exit_code >>

\* Lines 633-634: except Exception as e: extras.append({name, error}).
MainExtraRaised ==
  /\ pc = "raised"
  /\ IsPlaceholder(idx)
  /\ extras' = Append(extras, [ name |-> PromptNames[idx], kind |-> "error" ])
  /\ idx' = idx + 1
  /\ pc' = "main"
  /\ UNCHANGED folder_vars
  /\ UNCHANGED generator_vars
  /\ UNCHANGED << content_text, segments, force_legacy, dry_run, messages, sent,
                  resp, result, call, service, files, published, exit_code >>

\* Lines 636-640: the summary is printed and main returns.
MainFinish ==
  /\ pc = "main"
  /\ idx = Len(PromptNames) + 1
  /\ exit_code' = 0
  /\ pc' = "done"
  /\ UNCHANGED folder_vars
  /\ UNCHANGED generator_vars
  /\ UNCHANGED << content_text, segments, force_legacy, dry_run, messages, sent,
                  resp, result, call, service, files, idx, published, extras >>

MainDocs == { Hello, JinjaDoc }

\* What the service lists under the parent before a run of main.
MainListings == { <<>>, << Entry(7, patient_full_name) >> }

InitMain ==
  /\ pc = "main_start"
  /\ folder_id \in { PyNone, PyInt(42) }
  /\ workspace_id = PyInt(5)
  /\ remote \in MainListings
  /\ flog = <<>>
  /\ existing = <<>>
  /\ existing_after = <<>>
  /\ created = NoCreate
  /\ returned = <<>>
  /\ idx = 1
  /\ files \in [ 1..Len(Labels) -> MainDocs ]
  /\ force_legacy \in BOOLEAN
  /\ dry_run \in BOOLEAN
  /\ service = MainReplies
  /\ content_text = <<>>
  /\ call = NoValue
  /\ segments = NoValue
  /\ messages = <<>>
  /\ sent = <<>>
  /\ resp = [ a \in Attempts |-> NoReply ]
  /\ result = NoValue
  /\ published = <<>>
  /\ extras = <<>>
  /\ exit_code = -1
  /\ NoGenerator

NextMain ==
  \/ MainFolder
  \/ EnsureCall
  \/ GetChildren
  \/ GetDetail
  \/ GetWorkspace
  \/ GetGlobal
  \/ CreateInWorkspace
  \/ CreateGlobal
  \/ MainFolderReturned
  \/ MainFolderRaised
  \/ MainCall
  \/ PublishBuild
  \/ PostV2
  \/ PostRest
  \/ PostLegacy
  \/ PostFolder
  \/ PostCompletion
  \/ MainDocReturned
  \/ MainDocRaised
  \/ MainExtraReturned
  \/ MainExtraRaised
  \/ MainFinish

SpecMain == InitMain /\ [][NextMain]_vars

-----------------------------------------------------------------------------
(* Properties of the segmenter (SpecSeg)                                    *)

\* C1: for every input text, the empty and the whitespace-only ones included,
\* _split_into_segments returns between 2 and 5 segments and every returned
\* segment is non-empty after trimming.
C1_TwoToFiveNonEmptySegments ==
  pc = "seg_done" =>
    /\ Len(segments) \in 2..5
    /\ \A k \in 1..Len(segments) : strip(segments[k]) # <<>>

-----------------------------------------------------------------------------
(* Properties of one publish call (Spec)                                    *)

\* The fixed order of the attempts.
AttemptOrder == << "v2", "rest", "legacy", "folder", "completion" >>

\* Attempt a was answered, and with a status that is a success / a failure.
Succeeded(a) == resp[a].status \in { 200, 201 }
Failed(a) == resp[a].status \notin { 0, 200, 201 }

\* The message list is built once the call has passed its first step.
MessagesBuilt == pc # "call"

\* C2: once the enforcement has run, i.e. before the first request is sent,
\* every message of role system in the list publish_prompt_in_folder built
\* has at least 2 segments, whatever the document.
C2_SystemHasTwoSegments ==
  MessagesBuilt =>
    \A k \in 1..Len(messages) :
      messages[k].role = "system" => Len(messages[k].content) >= 2

\* C3: the requests of one publish call are sent in the fixed order v2, rest,
\* legacy, folder, completion (v2 left out when it is skipped); a request is
\* followed by another only if it was answered with a failure, and once an
\* attempt has succeeded the call has returned, so that no request follows.
C3_FixedOrderStopAtSuccess ==
  LET skipped == IF force_legacy THEN 1 ELSE 0
  IN  /\ Len(sent) + skipped <= Len(AttemptOrder)
      /\ \A k \in 1..Len(sent) : sent[k].attempt = AttemptOrder[k + skipped]
      /\ \A k \in 1..(Len(sent) - 1) : Failed(sent[k].attempt)
      /\ pc \in Attempts => \A k \in 1..Len(sent) : Failed(sent[k].attempt)
      /\ \A k \in 1..Len(sent) :
           Succeeded(sent[k].attempt) => k = Len(sent) /\ pc = "returned"

\* All five attempts were sent and the last one succeeded.
C3_Witness ==
  /\ ~force_legacy
  /\ pc = "returned"
  /\ Len(sent) = 5
  /\ \A k \in 1..4 : Failed(sent[k].attempt)
  /\ Succeeded("completion")

\* C4: when the attempts before attempt k failed and attempt k succeeded, the
\* call returns exactly the body attempt k received.
C4_ReturnsBodyOfSucceedingAttempt ==
  \A k \in 1..Len(sent) :
    (pc = "returned" /\ Succeeded(sent[k].attempt)) =>
      result = resp[sent[k].attempt].data

\* Attempts 1-4 failed with a body of their own, attempt 5 succeeded, and the
\* call returned the body of attempt 5.
C4_Witness ==
  /\ pc = "returned"
  /\ Len(sent) = 5
  /\ \A a \in { "v2", "rest", "legacy", "folder" } :
       resp[a] = [ status |-> 404, data |-> [ raw |-> "Bad Gateway" ] ]
  /\ resp["completion"] = [ status |-> 201, data |-> [ id |-> 7 ] ]
  /\ result = [ id |-> 7 ]

\* C5: a timeout or transport error of an attempt is handled like a failure
\* response of that attempt: the call goes on to the next attempt, never
\* raises and returns a result.
C5_TransportErrorIsAFailure ==
  pc # "raised"

\* C6: when every attempt of the call failed, the value returned has exactly
\* the entries rest, legacy, folder and completion, each the body that attempt
\* received, and it has no id entry.
C6_FailureReportKeyedByAttempt ==
  (pc = "returned" /\ Failed("completion")) =>
    /\ DOMAIN result = { "rest", "legacy", "folder", "completion" }
    /\ \A a \in { "rest", "legacy", "folder", "completion" } : result[a] = resp[a].data
    /\ "id" \notin DOMAIN result

\* Every attempt failed, the last with a JSON body that holds an id.
C6_Witness ==
  /\ pc = "returned"
  /\ Len(sent) = 5
  /\ \A a \in Attempts : Failed(a)
  /\ resp["rest"].data = [ raw |-> "Bad Gateway" ]
  /\ resp["completion"].data = [ id |-> 7 ]
  /\ result.completion = [ id |-> 7 ]

\* C7: a dry run sends no request, for every document and either setting of
\* force_legacy.
C7_DryRunSendsNothing ==
  dry_run => sent = <<>>

\* A dry run with force_legacy set has returned.
C7_Witness ==
  /\ dry_run
  /\ force_legacy
  /\ pc = "returned"
  /\ content_text = JinjaDoc
  /\ sent = <<>>

\* C9: with force_legacy set no request goes to the v2 endpoint: the first
\* request is the rest attempt and the order of the others is unchanged.
C9_ForceLegacySkipsV2 ==
  force_legacy =>
    /\ \A k \in 1..Len(sent) :
         /\ sent[k].attempt # "v2"
         /\ sent[k].url[1] # "API_BASE"
         /\ sent[k].attempt = AttemptOrder[k + 1]
    /\ (pc \in Attempts /\ sent = <<>>) => pc = "rest"

\* With force_legacy set the four legacy attempts were sent, rest first.
C9_Witness ==
  /\ force_legacy
  /\ pc = "returned"
  /\ Len(sent) = 4
  /\ sent[1].attempt = "rest"
  /\ sent[4].attempt = "completion"

-----------------------------------------------------------------------------
(* Properties of the orchestrator (SpecMain)                                *)

\* C8: the value a dry run returns is a success that holds the computed
\* message list: main does not take it for a failed publish (exit status 3)
\* and goes on to the next document.
C8_DryRunResultIsSuccess ==
  dry_run =>
    /\ pc = "returned" => ("messages" \in DOMAIN result /\ result.messages = messages)
    /\ exit_code # 3

-----------------------------------------------------------------------------
(* Properties of the message builder (SpecBuild)                            *)

\* The label whose header starts at offset i of s ends at offset e: offset i
\* starts a line with "###", then whitespace, then the label up to e, then
\* nothing but whitespace up to a line end.
C10_LabelEndsAt(s, i, label, e) ==
  /\ i = 0 \/ s[i] = "\n"
  /\ StartsWithAt(s, i, HASHES)
  /\ e - Len(label) >= i + 3
  /\ StartsWithAt(s, e - Len(label), label)
  /\ \A m \in (i + 3)..(e - Len(label) - 1) : s[m + 1] \in WS
  /\ \E n \in e..(Len(s) - 1) :
       /\ s[n + 1] = "\n"
       /\ \A m \in e..(n - 1) : s[m + 1] \in WS

C10_Labels == { System, User, Assistant }

\* Offset i of s starts a header line.
C10_IsHeader(s, i) ==
  /\ i = 0 \/ s[i] = "\n"
  /\ StartsWithAt(s, i, HASHES)
  /\ \E label \in C10_Labels : \E e \in i..Len(s) : C10_LabelEndsAt(s, i, label, e)

C10_Headers(s) == { i \in 0..Len(s) : C10_IsHeader(s, i) }

\* The role and the label end of the header line at offset i.
C10_RoleOf(s, i) ==
  IF \E e \in i..Len(s) : C10_LabelEndsAt(s, i, System, e) THEN "system"
  ELSE IF \E e \in i..Len(s) : C10_LabelEndsAt(s, i, User, e) THEN "user"
  ELSE "assistant"
C10_LabelEnd(s, i) ==
  CHOOSE e \in i..Len(s) : \E label \in C10_Labels : C10_LabelEndsAt(s, i, label, e)

\* Some character of s[a:b] is no whitespace.
C10_TextBetween(s, a, b) == \E m \in a..(b - 1) : s[m + 1] \notin WS

\* The header line just before the one at offset i, if any.
C10_Previous(H, i) == { h \in H : h < i /\ \A g \in H : g < i => g <= h }

RECURSIVE C10_IsSection(_, _, _)
\* The header line at offset i opens a section of its own: it is the first
\* one, or it does not follow a section's header line with nothing but
\* whitespace in between.  H is the set of the header lines of s.
C10_IsSection(s, H, i) ==
  \A prev \in C10_Previous(H, i) :
    \/ ~C10_IsSection(s, H, prev)
    \/ C10_TextBetween(s, C10_LabelEnd(s, prev), i)

\* The offsets of the sections of s.
C10_Sections(s) ==
  UNION { { i \in H : C10_IsSection(s, H, i) } : H \in { C10_Headers(s) } }

RECURSIVE C10_RolesInOrder(_, _)
\* The roles of the header lines at the offsets S, in source order.
C10_RolesInOrder(s, S) ==
  IF S = {} THEN <<>>
  ELSE << C10_RoleOf(s, MinOf(S)) >> \o C10_RolesInOrder(s, S \ { MinOf(S) })

C10_MessageRoles == [ k \in 1..Len(messages) |-> messages[k].role ]

\* C10: for every document with labeled sections (### System / ### User /
\* ### Assistant) the message list built for publishing has exactly one
\* message per labeled section, in source order, with the role of the label,
\* an assistant message for a ### Assistant section included.
C10_OneMessagePerSection ==
  pc = "build_done" =>
    \A s \in { NormalizeNewlines(content_text) } :
      \A S \in { C10_Sections(s) } :
        S # {} => C10_MessageRoles = C10_RolesInOrder(s, S)

C10_NotAssistant(s, S) == { i \in S : C10_RoleOf(s, i) # "assistant" }

\* C10, as the code has it: for every document with labeled sections the
\* message list built for publishing has exactly one message per ### System
\* or ### User section, in source order, with the role of the label; a
\* ### Assistant section yields no message.  A header line that follows a
\* section's header line with nothing but whitespace in between is part of
\* that section's body and no section of its own.
C10_OneMessagePerSystemOrUserSection ==
  pc = "build_done" =>
    \A s \in { NormalizeNewlines(content_text) } :
      \A S \in { C10_Sections(s) } :
        S # {} => C10_MessageRoles = C10_RolesInOrder(s, C10_NotAssistant(s, S))

\* The document with a System, a User and an Assistant section gave a system
\* and a user message.
C10_Witness ==
  /\ pc = "build_done"
  /\ content_text = JinjaDoc
  /\ C10_Headers(content_text) = { 0, 21, 61 }
  /\ C10_MessageRoles = << "system", "user" >>

\* The texts of the two fixed user segments and of the fixed assistant one.
C11_UserSegments ==
  << <<"C", "U", "R", "R", "E", "N", "T", " ", "P", "R", "O", "V", "I", "D", "E",
       "R", " ", "Q", "U", "E", "S", "T", "I", "O", "N", ":">>,
     <<"{", "{", " ", "p", "r", "o", "v", "i", "d", "e", "r", "_", "q", "u", "e",
       "s", "t", "i", "o", "n", " ", "}", "}">> >>

-----------------------------------------------------------------------------
(* Folder stage properties                                                  *)

\* The entry is a folder whose name equals the target name case-insensitively
\* after trimming.
C12_NameEquals(f) ==
  /\ IsDict(f)
  /\ "name" \in DOMAIN f.v
  /\ f.v["name"].t = "str"
  /\ lower(strip(f.v["name"].v)) = lower(strip(patient_full_name))

\* The integer identifiers the entry carries.
C12_Ids(f) ==
  { f.v[key].v : key \in { k \in { "id", "folder_id" } \cap DOMAIN f.v : f.v[k].t = "int" } }

\* The identifiers of the entries of the listing that have the target name.
C12_MatchingIds(l) ==
  UNION { C12_Ids(l[k]) : k \in { j \in 1..Len(l) : C12_NameEquals(l[j]) } }

C12_CreateSent == \E k \in 1..Len(flog) : flog[k].method = "POST"

\* C12: whenever the listing of the parent's children contains an entry of
\* the target name (case-insensitively, after trimming) that carries an
\* integer identifier, ensure_patient_folder returns the identifier of such
\* an entry and sends no create request.
C12_ListedMatchIsReturned ==
  C12_MatchingIds(existing) # {} =>
    /\ pc \notin { "post_workspace", "post_global", "ensure_raised" }
    /\ ~C12_CreateSent
    /\ folder_id \in { PyInt(n) : n \in C12_MatchingIds(existing) }

\* The same, for the listings in which the first entry of the target name is
\* the one with the integer identifier and no entry before it has a null name.
C12_FirstMatchCarriesId(l) ==
  \E k \in 1..Len(l) :
    /\ C12_NameEquals(l[k])
    /\ C12_Ids(l[k]) # {}
    /\ \A j \in 1..(k - 1) : IsDict(l[j]) => ~NameRaises(l[j]) /\ ~C12_NameEquals(l[j])

C12_FirstListedMatchIsReturned ==
  C12_FirstMatchCarriesId(existing) =>
    /\ pc \notin { "post_workspace", "post_global", "ensure_raised" }
    /\ ~C12_CreateSent
    /\ folder_id \in { PyInt(n) : n \in C12_MatchingIds(existing) }

\* The listing [{id: 7, name: "Jane Doe"}] resolved to 7 with no create
\* request.
C12_Witness ==
  /\ pc = "ensure_returned"
  /\ existing = << Entry(7, patient_full_name) >>
  /\ folder_id = PyInt(7)
  /\ ~C12_CreateSent

\* The folders of the listing that a create request of the run added: the
\* service gives the folder it adds at position k the identifier 20 + k - 1.
C13_CreatedIn(l) ==
  { l[k] : k \in { j \in 1..Len(l) : l[j] = Entry(20 + j - 1, patient_full_name) } }

C13_ListedBy(l) == { l[k] : k \in 1..Len(l) }

\* The second call is under way or over, the first call created a folder and
\* the listing the second call got holds that folder.
C13_SecondCallSeesCreation ==
  /\ Len(returned) = 1
  /\ pc # "ensure_call"
  /\ C13_CreatedIn(returned[1].listed) # {}
  /\ C13_CreatedIn(returned[1].listed) \subseteq C13_ListedBy(existing)

\* C13: when ensure_patient_folder is called twice in a row with the same
\* parent and name and the listing the second call gets reflects the folder
\* the first call created, the second call returns the identifier the first
\* call returned and sends no create request.
C13_SecondCallSameId ==
  C13_SecondCallSeesCreation =>
    /\ pc \notin { "post_workspace", "post_global", "ensure_raised" }
    /\ ~C12_CreateSent
    /\ folder_id = returned[1].value

\* The same, when the folder the first call created is the only folder of the
\* name, the first call returned its identifier and no listed entry has a
\* name that is no text.
C13_OnlyFolderOfTheName ==
  /\ \A f \in C13_ListedBy(returned[1].listed) :
       IsDict(f) => /\ ~NameRaises(f)
                    /\ C12_NameEquals(f) => f \in C13_CreatedIn(returned[1].listed)
  /\ \E f \in C13_CreatedIn(returned[1].listed) : returned[1].value = f.v["id"]

C13_SecondCallSameIdWhenFresh ==
  C13_SecondCallSeesCreation /\ C13_OnlyFolderOfTheName =>
    /\ pc \notin { "post_workspace", "post_global", "ensure_raised" }
    /\ ~C12_CreateSent
    /\ folder_id = returned[1].value

\* The first call created folder 20 under an empty parent; the second call
\* found it in the listing and returned 20 without a create request.
C13_Witness ==
  /\ Len(returned) = 1
  /\ pc = "ensure_returned"
  /\ returned[1].value = PyInt(20)
  /\ remote = << Entry(20, patient_full_name) >>
  /\ existing = remote
  /\ folder_id = PyInt(20)
  /\ ~C12_CreateSent

\* C14: ensure_patient_folder never raises; when the listing fails, the
\* create request fails or its response carries no identifier, and the second
\* listing fails or has no match, it returns an absent identifier.
C14_NeverRaises ==
  /\ pc # "ensure_raised"
  /\ (pc = "ensure_returned" /\ C12_CreateSent /\ ~IsSuccess(created.status)
        /\ _extract_folder_id_from_response(created.body) = PyNone
        /\ MatchScan(existing_after, patient_full_name, 1).kind # "found")
       => folder_id = PyNone

\* The failure cases in which the call does return an absent identifier: every
\* request was answered, no listed name is null, and neither the create
\* response nor the second listing gave an identifier.
C14_AbsentWhenAnswered ==
  (/\ pc = "ensure_returned"
   /\ C12_CreateSent
   /\ _extract_folder_id_from_response(created.body) = PyNone
   /\ MatchScan(existing_after, patient_full_name, 1).kind \in { "none", "bad_id" })
    => folder_id = PyNone

C14_AbsentWitness ==
  /\ pc = "ensure_returned"
  /\ C12_CreateSent
  /\ created.status = 400
  /\ folder_id = PyNone

-----------------------------------------------------------------------------
(* Orchestrator properties of the folder stage                              *)

\* The positions of main in the folder stage (lines 564-571).
C15_FolderStage ==
  { "main_start", "ensure_call", "get_children", "get_detail", "get_workspace",
    "get_global", "post_workspace", "post_global", "ensure_returned", "ensure_raised" }

\* Nothing of the publish loops has happened.
C15_NothingPublished ==
  /\ sent = <<>>
  /\ call = NoValue
  /\ idx = 1
  /\ published = <<>>
  /\ extras = <<>>

\* The folder identifier a publish request carries: in its body, in both
\* envelopes of the rest body, or in the URL of the folder endpoint.
C15_FolderOf(q) ==
  CASE q.attempt \in { "v2", "legacy", "completion" } -> q.json.folder_id
    [] q.attempt = "rest" ->
         IF q.json.prompt_template.folder_id = q.json.prompt_version.folder_id
         THEN q.json.prompt_template.folder_id
         ELSE -1
    [] q.attempt = "folder" -> q.url[3]

\* Past the folder stage without a folder identifier the run has ended (with
\* 2, or with the traceback of an exception of the resolver) and nothing was
\* published; every publish call and every request carries the identifier.
C15_PublishHasFolder ==
  /\ (pc \notin C15_FolderStage /\ folder_id = PyNone)
       => /\ pc \in { "exit", "crashed" }
          /\ C15_NothingPublished
  /\ call # NoValue => folder_id.t = "int" /\ call.folder_id = folder_id.v
  /\ \A k \in 1..Len(sent) :
       call # NoValue /\ C15_FolderOf(sent[k]) = call.folder_id

\* The step of main after the resolver returned no identifier ends the run
\* with exit code 2.
C15_StopsWithTwo ==
  (pc = "ensure_returned" /\ folder_id = PyNone)
    => /\ pc' = "exit"
       /\ exit_code' = 2
       /\ folder_id' = PyNone
       /\ C15_NothingPublished'

\* C15: when the folder resolver returns no identifier, main stops the run
\* with exit code 2 before any publish request is sent; no prompt template is
\* ever published without a folder identifier.
C15_NoFolderStopsRun == [](C15_PublishHasFolder) /\ [][C15_StopsWithTwo]_vars

\* The create request was refused by both endpoints, the second listing had
\* no folder of the name, and the run ended with 2.
C15_Witness ==
  /\ pc = "exit"
  /\ exit_code = 2
  /\ folder_id = PyNone
  /\ remote = <<>>
  /\ C15_NothingPublished

-----------------------------------------------------------------------------
(* Orchestrator properties of the publish loops                             *)

\* A publish call of main has returned with every attempt it made answered by
\* a failure status, the completion attempt included.
C16_AllAttemptsFailed ==
  /\ pc = "returned"
  /\ idx \in 1..Len(PromptNames)
  /\ sent # <<>>
  /\ \A k \in 1..Len(sent) : Failed(sent[k].attempt)
  /\ sent[Len(sent)].attempt = "completion"

\* The step of main after such a call ends the run.
C16_RunStops ==
  /\ pc' = "exit"
  /\ exit_code' = 3
  /\ << idx, sent, published, extras, result >>' = << idx, sent, published, extras, result >>

\* The step of main after such a call records the response and goes on to the
\* next placeholder.
C16_RunGoesOn ==
  /\ pc' = "main"
  /\ idx' = idx + 1
  /\ extras' = Append(extras, [ name |-> PromptNames[idx], kind |-> "response" ])
  /\ exit_code' = exit_code

\* C16 as stated: whenever a publish call of the run, for a document or for a
\* placeholder prompt, ends with all of its attempts failed, main stops the
\* run after reporting the attempt bodies, and no request for a later prompt
\* is sent.
C16_FailedCallStopsRun ==
  [][ /\ pc # "exit"
      /\ C16_AllAttemptsFailed => result = FailureReport(resp) /\ C16_RunStops ]_vars

\* C16: whenever the publish call of one of the three documents ends with all
\* of its attempts failed, main stops the run with exit code 3 after reporting
\* the attempt bodies, and no request for a later prompt is sent; after such a
\* call for a placeholder prompt main records the attempt bodies and goes on
\* with the next placeholder.
C16_FailedDocumentStopsRun ==
  [][ /\ pc # "exit"
      /\ C16_AllAttemptsFailed =>
           /\ result = FailureReport(resp)
           /\ IsDocument(idx) => C16_RunStops
           /\ IsPlaceholder(idx) => C16_RunGoesOn ]_vars

\* The call for the second document failed in all five attempts and the run
\* ended with 3, the first document published and nothing else.
C16_Witness ==
  /\ pc = "exit"
  /\ exit_code = 3
  /\ idx = 2
  /\ published = << "short" >>
  /\ extras = <<>>
  /\ Len(sent) = 5
  /\ \A k \in 1..5 : Failed(sent[k].attempt)
  /\ result = FailureReport(resp)

-----------------------------------------------------------------------------
(* Segmenter properties of the strategies                                   *)

\* The text has no dash-line separator and no blank line.
C17_OneBlock(text) ==
  /\ Len(re_split_dash(text)) = 1
  /\ Len(split(text, NLNL)) = 1

\* C17: for a non-blank text of at most chunk_size characters without a
\* dash-line separator and without a blank line the segmenter returns exactly
\* two segments, the halves of the text split at its midpoint character
\* index, so that each character of the text is in exactly one segment.
C17_ShortTextIsHalved ==
  (/\ pc = "seg_done"
   /\ strip(content_text) # <<>>
   /\ Len(content_text) <= chunk_size
   /\ C17_OneBlock(content_text))
    => /\ segments = MidpointSplit(strip(content_text))
       /\ Len(segments) = 2
       /\ Len(segments[1]) + Len(segments[2]) <= Len(content_text)

\* The characters of a text that are no whitespace, in order.
C18_NotWhitespace(c) == c \notin WS
C18_Content(text) == SelectSeq(text, C18_NotWhitespace)

\* The text reaches the fixed-size chunking and fits in five windows.
C18_ReachesChunking(text) ==
  /\ Len(DashParts(text)) < 2
  /\ Len(ParagraphParts(text)) < 2
  /\ Len(text) <= 5 * chunk_size

\* C18: for every text that reaches the fixed-size chunking and fits in five
\* windows, the segments concatenated in order have the non-whitespace
\* content of the text: nothing is duplicated and nothing is missing.
C18_ChunksReconstructText ==
  (pc = "seg_done" /\ C18_ReachesChunking(content_text))
    => C18_Content(Concat(segments, 1, Len(segments))) = C18_Content(content_text)

\* What the code returns for those texts: for a blank text nothing; otherwise
\* the whole stripped text first, then its non-empty windows, 5 segments at
\* most.
C18_WholeTextThenWindows ==
  (pc = "seg_done" /\ C18_ReachesChunking(content_text))
    => IF strip(content_text) = <<>> THEN segments = <<>>
       ELSE /\ segments[1] = strip(content_text)
            /\ Len(segments) \in 2..5
            /\ \A k \in 2..Len(segments) :
                 \E i \in 0..(Len(content_text) \div chunk_size) :
                   segments[k] = strip(Slice(content_text, i * chunk_size, (i + 1) * chunk_size))

\* C19: the strategies have strict priority.  If the dash split gives 2 or
\* more non-empty parts the result is exactly the first up-to-5 of them, in
\* order; otherwise, if the paragraph split gives 2 or more non-empty
\* paragraphs, the result is exactly the first up-to-5 paragraphs, in order;
\* the chunking adds segments only when both gave fewer than 2.
C19_StrictPriority ==
  pc = "seg_done" =>
    \A D \in { DashParts(content_text) }, P \in { ParagraphParts(content_text) } :
      /\ Len(D) >= 2 => segments = Take(D, 5)
      /\ Len(D) < 2 /\ Len(P) >= 2 => segments = Take(P, 5)

\* A text that both the dash split and the paragraph split cut in two, at
\* different places: the result is the dash parts.
C19_Witness ==
  /\ pc = "seg_done"
  /\ content_text = <<"1", "\n", " ", "-", "-", "-", "-", " ", "\n", "\n", "2">>
  /\ ParagraphParts(content_text) = << <<"1", "\n", " ", "-", "-", "-", "-">>, <<"2">> >>
  /\ segments = << <<"1">>, <<"2">> >>

-----------------------------------------------------------------------------
(* Publisher properties of the success test                                 *)

\* Attempt a was answered.
C20_Answered(a) == resp[a].status # 0

\* The body of the answer to attempt a was parsed: the data kept for it is not
\* the {"raw": text} stand-in.
C20_Parsable(a) == "raw" \notin DOMAIN resp[a].data

\* The call ended at attempt a as a success: it returned the data of a, and a
\* is the last attempt it made.
C20_EndedAsSuccess(a) ==
  /\ pc = "returned"
  /\ sent # <<>>
  /\ sent[Len(sent)].attempt = a
  /\ result = resp[a].data

\* The call went on after attempt a: to the next attempt, or, after the
\* completion attempt, to the failure report.
C20_MovedOn(a) ==
  \/ pc = AfterFailure(a) /\ a # "completion"
  \/ \E k \in 1..(Len(sent) - 1) : sent[k].attempt = a
  \/ a = "completion" /\ pc = "returned" /\ result = FailureReport(resp)

-----------------------------------------------------------------------------
(* Publisher properties of the payloads                                     *)

\* The requests of the call that went to attempt a.
C21_Requests(a) == { k \in 1..Len(sent) : sent[k].attempt = a }

\* The message list a request carries; the rest body carries one in each of
\* its two envelopes.
C21_MessagesOf(q) ==
  IF q.attempt = "v2" THEN q.json.prompt_template.messages
  ELSE IF q.attempt = "rest" THEN q.json.prompt_template.prompt_template.messages
  ELSE q.json.messages

\* The rest body holds the same template under its two keys.
C21_Duplicated(q) ==
  /\ DOMAIN q.json = { "prompt_template", "prompt_version" }
  /\ q.json.prompt_template = q.json.prompt_version

\* C21 as stated: the payload of the rest attempt carries the multi-segment
\* messages of the message builder, each with the same segments as in the v2
\* attempt, under its two envelope keys; collapsed messages are sent in the
\* completion attempt only.
C21_RestCarriesSegments ==
  \A k \in C21_Requests("rest") :
    /\ C21_Duplicated(sent[k])
    /\ C21_MessagesOf(sent[k]) = messages

\* C21: the payload of the rest attempt carries, under its two envelope keys,
\* the messages of the message builder collapsed: the same messages in the
\* same order, each with exactly 1 segment, the segments of the built message
\* joined by a blank line.  The v2, legacy and folder attempts carry the
\* multi-segment messages as built.
C21_RestCarriesCollapsed ==
  /\ \A k \in C21_Requests("rest") :
       /\ C21_Duplicated(sent[k])
       /\ Len(C21_MessagesOf(sent[k])) = Len(messages)
       /\ \A i \in 1..Len(messages) :
            /\ C21_MessagesOf(sent[k])[i].role = messages[i].role
            /\ C21_MessagesOf(sent[k])[i].content = << join(NLNL, messages[i].content) >>
  /\ \A k \in C21_Requests("v2") \cup C21_Requests("legacy") \cup C21_Requests("folder") :
       C21_MessagesOf(sent[k]) = messages

\* The rest request of a call whose system message has 2 or more segments was
\* sent, with that message in 1 segment.
C21_Witness ==
  /\ C21_Requests("rest") # {}
  /\ Len(messages) >= 2
  /\ messages[1].role = "system"
  /\ Len(messages[1].content) >= 2
  /\ \A k \in C21_Requests("rest") : Len(C21_MessagesOf(sent[k])[1].content) = 1

\* The joined, trimmed text of built message i.
C22_Text(i) == strip(join(NLNL, messages[i].content))

\* The built messages of a role whose text is not empty.
C22_WithText(role) ==
  { i \in 1..Len(messages) : messages[i].role = role /\ C22_Text(i) # <<>> }

\* The text of the last built message of a role that has one, else `default`.
C22_TextOf(role, default) ==
  IF C22_WithText(role) = {} THEN default ELSE C22_Text(MaxOf(C22_WithText(role)))

\* C22: for every document, the completion payload has exactly two messages:
\* a system message with exactly 1 segment, the joined system text, and a user
\* message with exactly 2 segments, the first the joined user text, or the
\* provider-question placeholder when there is no non-empty user text, the
\* second the literal "(continued)".
C22_CompletionShape ==
  \A k \in C21_Requests("completion") :
    \A ms \in { sent[k].json.messages } :
      /\ Len(ms) = 2
      /\ ms[1].role = "system"
      /\ ms[1].content = << C22_TextOf("system", <<>>) >>
      /\ ms[2].role = "user"
      /\ Len(ms[2].content) = 2
      /\ ms[2].content[1] = C22_TextOf("user", PROVIDER_QUESTION_VAR)
      /\ ms[2].content[2] = CONTINUED

\* The completion request of a document without user text was sent with the
\* placeholder as the user text.
C22_Witness ==
  /\ C21_Requests("completion") # {}
  /\ C22_WithText("user") = {}
  /\ C22_WithText("system") # {}
  /\ \A k \in C21_Requests("completion") :
       sent[k].json.messages[2].content = << PROVIDER_QUESTION_VAR, CONTINUED >>

\* The completion request of a document with user text was sent with that
\* text.
C22_UserTextWitness ==
  /\ C21_Requests("completion") # {}
  /\ C22_WithText("user") # {}
  /\ \A k \in C21_Requests("completion") :
       sent[k].json.messages[2].content[1] # PROVIDER_QUESTION_VAR

\* The requests of the call so far are within the bound and no attempt was
\* made twice.
C23_Bounded ==
  /\ Len(sent) <= 5
  /\ force_legacy => Len(sent) <= 4
  /\ \A j, k \in 1..Len(sent) : sent[j].attempt = sent[k].attempt => j = k

\* The call has ended: it returned or it raised.
C23_Ended == pc \in { "returned", "raised" }

\* The steps the call has left at most: the build, then one per attempt.
C23_StepsLeft ==
  CASE pc = "call" -> 6
    [] pc = "v2" -> 5
    [] pc = "rest" -> 4
    [] pc = "legacy" -> 3
    [] pc = "folder" -> 2
    [] pc = "completion" -> 1
    [] C23_Ended -> 0

\* A call that has not ended is at the build or at an attempt, whose request
\* is answered or fails (httpx.Client(timeout=30.0)): it takes another step.
C23_TakesAStep ==
  ~C23_Ended => pc = "call" \/ (pc \in Attempts /\ service # {})

\* C23: one publish call sends at most 5 requests, at most 4 with
\* force_legacy, sends each attempt at most once, and ends for every sequence
\* of responses: a call that has not ended takes another step, and every
\* step leaves it fewer steps, of 6 at most, before its end.
C23_BoundedAndTerminates ==
  /\ [](C23_Bounded /\ C23_TakesAStep)
  /\ [][C23_StepsLeft' < C23_StepsLeft]_vars

\* A call that made all 5 attempts, each once, and returned.
C23_Witness ==
  /\ pc = "returned"
  /\ ~force_legacy
  /\ Len(sent) = 5
  /\ { sent[k].attempt : k \in 1..5 } = Attempts

-----------------------------------------------------------------------------
(* Folder stage properties of the requests                                  *)

\* The endpoints of a listing pass and of create_folder, in order.
C24_ListingOrder ==
  IF workspace_id # PyNone THEN << "children", "detail", "workspace", "global" >>
  ELSE << "children", "detail", "global" >>
C24_CreateOrder ==
  IF workspace_id # PyNone THEN << "workspace", "global" >> ELSE << "global" >>

\* Requests i+1..j of the call are the first j-i requests of `order`.
C24_Follows(i, j, method, order) ==
  /\ j - i <= Len(order)
  /\ \A k \in 1..(j - i) : flog[i + k] = [ method |-> method, to |-> order[k] ]

C24_Count(method, to) ==
  Cardinality({ k \in 1..Len(flog) : flog[k] = [ method |-> method, to |-> to ] })

\* The requests so far are a listing pass, then create requests, then a
\* second listing pass, each in its order.
C24_InOrder ==
  \E i \in 0..Len(flog) : \E j \in i..Len(flog) :
    /\ C24_Follows(0, i, "GET", C24_ListingOrder)
    /\ C24_Follows(i, j, "POST", C24_CreateOrder)
    /\ C24_Follows(j, Len(flog), "GET", C24_ListingOrder)
    /\ Len(flog) > 0 => i > 0
    /\ Len(flog) > j => j > i

\* A second listing pass has started.
C24_ListedAgain ==
  \E j, k \in 1..Len(flog) : j < k /\ flog[j].method = "POST" /\ flog[k].method = "GET"

\* C24: ensure_patient_folder sends one listing pass; then, only if that pass
\* gave no usable match, the create request, workspace-scoped first when a
\* workspace id is configured, the global one only when none is configured or
\* the workspace-scoped create did not succeed; then at most one more listing
\* pass, only when no identifier could be extracted from the create response.
\* There are never more than 2 listing passes or more than 2 create requests.
C24_RequestOrder ==
  /\ C24_InOrder
  /\ C24_Count("GET", "children") <= 2
  /\ Cardinality({ k \in 1..Len(flog) : flog[k].method = "POST" }) <= 2
  /\ (C12_CreateSent \/ pc \in { "post_workspace", "post_global" })
       => MatchScan(existing, patient_full_name, 1).kind \in { "none", "bad_id" }
  /\ pc = "post_global" => created = NoCreate
  /\ (created # NoCreate /\ C24_Count("POST", "global") = 0) => IsSuccess(created.status)
  /\ C24_ListedAgain =>
       /\ created # NoCreate
       /\ _extract_folder_id_from_response(created.body) = PyNone

\* With a workspace id: the first pass found no folder, the workspace-scoped
\* create was refused, the global one gave no identifier, and the second pass
\* found the folder.
C24_Witness ==
  /\ pc = "ensure_returned"
  /\ workspace_id # PyNone
  /\ C24_Count("GET", "children") = 2
  /\ C24_Count("POST", "workspace") = 1
  /\ C24_Count("POST", "global") = 1
  /\ folder_id # PyNone

-----------------------------------------------------------------------------
(* Segmenter properties of the result size                                  *)

\* The segments that reach lines 230-233, the final step.
C26_BeforeMidpoint(text) ==
  AfterChunking(text, AfterParagraphSplit(text, AfterDashSplit(DashParts(text))))

C26_BlankWitness ==
  /\ pc = "seg_done"
  /\ content_text # <<>>
  /\ strip(content_text) = <<>>
  /\ segments = <<>>

-----------------------------------------------------------------------------
(* Publisher properties of the frame                                        *)

\* The legacy and the folder requests carry the message list as built, which
\* is the list the v2 request carried.
C28_SameMessages ==
  \A k \in C21_Requests("legacy") \cup C21_Requests("folder") :
    /\ sent[k].json.messages = messages
    /\ \A j \in C21_Requests("v2") :
         sent[k].json.messages = sent[j].json.prompt_template.messages

\* Once built, the message list is not changed by a step of the call, and the
\* folder id, the prompt name, the commit message and the metadata never are.
C28_Frame ==
  /\ pc # "call" => messages' = messages
  /\ call' = call

\* C28: within one publish call the multi-segment message list is not changed
\* by the attempts: the messages sent in attempts 3 and 4 are identical to
\* those sent in attempt 1, and building the collapsed messages or receiving
\* failure responses leaves the message list, the folder id, the prompt name,
\* the commit message and the metadata unchanged.
C28_AttemptsLeaveMessages == [](C28_SameMessages) /\ [][C28_Frame]_vars

\* The v2, rest, legacy and folder requests of a call with a message of 2 or
\* more segments were sent, the rest one with that message collapsed.
C28_Witness ==
  /\ C21_Requests("v2") # {}
  /\ C21_Requests("folder") # {}
  /\ \E i \in 1..Len(messages) : Len(messages[i].content) >= 2
  /\ \A k \in C21_Requests("rest") : C21_MessagesOf(sent[k]) # messages
  /\ \A k \in C21_Requests("folder") : \A j \in C21_Requests("legacy") :
       sent[k].json.messages = sent[j].json.messages

-----------------------------------------------------------------------------
(* Folder stage properties of the returned identifier                       *)

\* The identifiers carried by the entries of the listing that have the target
\* name.
C29_ListedIds(l) ==
  { IntOf(EntryId(l[k])) :
      k \in { j \in 1..Len(l) : C12_NameEquals(l[j]) /\ IntOk(EntryId(l[j])) } }

\* The returned identifier was carried by a listed entry of the target name.
C29_FromListing ==
  folder_id.v \in C29_ListedIds(existing) \cup C29_ListedIds(existing_after)

\* C29: ensure_patient_folder returns an identifier only when that identifier
\* was carried by a listed entry whose name matches the target name, or by the
\* response of a create request that was answered 200/201; an identifier found
\* in the body of a failed create request is never returned.
C29_IdFromMatchOrSuccessfulCreate ==
  (pc = "ensure_returned" /\ folder_id # PyNone) =>
    \/ C29_FromListing
    \/ /\ IsSuccess(created.status)
       /\ _extract_folder_id_from_response(created.body) = folder_id

\* What the code does: the identifier comes from a listed entry of the target
\* name or from the body create_folder returned, whatever its status.
C29_IdFromMatchOrReturnedBody ==
  (pc = "ensure_returned" /\ folder_id # PyNone) =>
    \/ C29_FromListing
    \/ /\ created # NoCreate
       /\ _extract_folder_id_from_response(created.body) = folder_id

\* The global create was refused and the identifier of its body was returned.
C29_RefusedIdReturned ==
  /\ pc = "ensure_returned"
  /\ created.status = 409
  /\ folder_id = PyInt(99)
  /\ flog[Len(flog)] = [ method |-> "POST", to |-> "global" ]

-----------------------------------------------------------------------------
(* Orchestrator properties of the documents loop                            *)

\* The publish call of a document has returned.
C27_DocumentReturned == pc = "returned" /\ IsDocument(idx)

\* Some attempt of the call was answered 200/201.
C27_SomeAttemptSucceeded == \E k \in 1..Len(sent) : Succeeded(sent[k].attempt)

\* The step of main records the document and goes on.
C27_Recorded ==
  /\ published' = Append(published, Labels[idx])
  /\ idx' = idx + 1
  /\ pc' = "main"
  /\ exit_code' = exit_code

\* C27: for each of the three documents, main records the document as
\* published and continues whenever some attempt of its publish call was
\* answered 200/201; it stops the run with exit code 3 only when every attempt
\* of that publish call failed.
C27_PublishedWhenAnswered ==
  [][ C27_DocumentReturned =>
        /\ C27_SomeAttemptSucceeded => C27_Recorded
        /\ exit_code' = 3 => C16_AllAttemptsFailed ]_vars

\* What the code does: the document is recorded exactly when the returned
\* value holds an "id"; otherwise the run stops with 3.
C27_PublishedWhenIdReturned ==
  [][ C27_DocumentReturned =>
        /\ HasId(result) => C27_Recorded
        /\ ~HasId(result) => exit_code' = 3 /\ pc' = "exit" /\ published' = published ]_vars

\* The first document's v2 attempt was answered 201 with a body without an
\* "id", and the run stopped with 3.
C27_AnsweredButStopped ==
  /\ pc = "exit"
  /\ exit_code = 3
  /\ idx = 1
  /\ Len(sent) = 1
  /\ resp[sent[1].attempt].status = 201
  /\ ~HasId(result)
  /\ published = <<>>

-----------------------------------------------------------------------------
(* Generator: convert_to_jinja2_format, and the parse of what it writes     *)

SYSTEM_HEADER ==
  <<"#", "#", "#", " ", "S", "y", "s", "t", "e", "m", "\n", "\n">>
USER_SECTION ==
  <<"\n", "\n", "-", "-", "-", "\n", "\n", "#", "#", "#", " ", "U", "s",
    "e", "r", "\n", "\n", "{", "{", " ", "p", "r", "o", "v", "i", "d", "e",
    "r", "_", "q", "u", "e", "s", "t", "i", "o", "n", " ", "}", "}", "\n",
    "\n", "-", "-", "-", "\n", "\n", "#", "#", "#", " ", "A", "s", "s", "i",
    "s", "t", "a", "n", "t", "\n", "\n">>
ASSISTANT_SCAFFOLD ==
  <<"(", "T", "h", "e", " ", "a", "s", "s", "i", "s", "t", "a", "n", "t",
    " ", "w", "i", "l", "l", " ", "p", "r", "o", "d", "u", "c", "e", " ",
    "t", "h", "e", " ", "p", "a", "t", "i", "e", "n", "t", " ", "r", "e",
    "s", "p", "o", "n", "s", "e", " ", "h", "e", "r", "e", ".", ")">>

\* vignette_generator.py, lines 563-571.
convert_to_jinja2_format(content) ==
  SYSTEM_HEADER \o strip(content) \o USER_SECTION \o ASSISTANT_SCAFFOLD \o NL

\* The contents of the conversion runs: short texts, texts of many parts,
\* and blocks with and without a role header line.
ConvertLen == 3
ConvertContents == TextsUpTo(ConvertLen) \cup RepeatedTexts \cup Blocks

InitConvert ==
  /\ pc = "convert_call"
  /\ content_text \in ConvertContents
  /\ segments = NoValue
  /\ force_legacy = FALSE
  /\ dry_run = FALSE
  /\ messages = <<>>
  /\ sent = <<>>
  /\ resp = <<>>
  /\ result = NoValue
  /\ call = NoValue
  /\ service = {}
  /\ files = <<>>
  /\ idx = 0
  /\ published = <<>>
  /\ extras = <<>>
  /\ exit_code = -1
  /\ NoFolderStage
  /\ NoGenerator

\* The generator converts the content; the document is the build file.
Convert ==
  /\ pc = "convert_call"
  /\ files' = << convert_to_jinja2_format(content_text) >>
  /\ pc' = "convert_done"
  /\ UNCHANGED folder_vars
  /\ UNCHANGED generator_vars
  /\ UNCHANGED << content_text, segments, force_legacy, dry_run, messages, sent,
                  resp, result, call, service, idx, published, extras, exit_code >>

\* Ex.py, line 298: the document is parsed into messages.
ParseDocument ==
  /\ pc = "convert_done"
  /\ messages' = _parse_markdown_segments(files[1])
  /\ pc' = "parse_done"
  /\ UNCHANGED folder_vars
  /\ UNCHANGED generator_vars
  /\ UNCHANGED << content_text, segments, force_legacy, dry_run, sent, resp,
                  result, call, service, files, idx, published, extras,
                  exit_code >>

NextConvert == Convert \/ ParseDocument

SpecConvert == InitConvert /\ [][NextConvert]_vars

-----------------------------------------------------------------------------
(* Generator: the retry loop of generate_all_interactions                   *)

\* vignette_generator.py, lines 34, 60, 86: the names of RESPONSE_TYPES.
RESPONSE_TYPES ==
  << "Short Response Length", "Medium Response Length", "Long Response Length" >>

max_retries == 3
SufficientLength == 50

Xs(n) == [ k \in 1..n |-> "x" ]

\* What one model.generate_content call can give: a response with a text,
\* a response without one, or an exception.
ModelRaises == [ t |-> "raise" ]
ModelReplies ==
  { ModelRaises, PyNone, PyStr(<<>>), PyStr(<<" ">> \o Xs(SufficientLength) \o NL),
    PyStr(Xs(SufficientLength + 1)) }

\* Line 240: (getattr(response, 'text', None) or "").strip()
generate_interaction(reply) ==
  IF reply = PyNone THEN PyStr(<<>>) ELSE PyStr(strip(reply.v))

\* Line 285: interaction and len(interaction.strip()) > 50
Sufficient(text) == text.v # <<>> /\ Len(strip(text.v)) > SufficientLength

\* A variant that goes on while the count is at most max_retries.
RetriesLeftInclusive(count) == count <= max_retries

\* Line 274: while retry_count < max_retries
RetriesLeft(count) == count < max_retries

\* Lines 262-272: the loop takes the next response type.
StartType ==
  /\ pc = "gen_type"
  /\ type_index' = type_index + 1
  /\ retry_count' = 0
  /\ interaction' = PyNone
  /\ outputs' = <<>>
  /\ pc' = IF RetriesLeft(0) THEN "gen_retry" ELSE "gen_append"
  /\ UNCHANGED results
  /\ UNCHANGED folder_vars
  /\ UNCHANGED publish_vars
  /\ UNCHANGED exit_code

\* Lines 274-302: one pass of the while loop, one model call.  A sufficient
\* output breaks the loop; a short one and an exception count as a retry;
\* the exception of the last retry sets interaction to None.
GenerateInteraction ==
  /\ pc = "gen_retry"
  /\ \E reply \in ModelReplies :
       /\ outputs' = Append(outputs, reply)
       /\ IF reply = ModelRaises
          THEN /\ retry_count' = retry_count + 1
               /\ interaction' = IF retry_count + 1 < max_retries THEN interaction
                                 ELSE PyNone
               /\ pc' = IF RetriesLeft(retry_count + 1) THEN "gen_retry" ELSE "gen_append"
          ELSE /\ interaction' = generate_interaction(reply)
               /\ IF Sufficient(generate_interaction(reply))
                  THEN /\ pc' = "gen_append"
                       /\ UNCHANGED retry_count
                  ELSE /\ retry_count' = retry_count + 1
                       /\ pc' = IF RetriesLeft(retry_count + 1) THEN "gen_retry"
                                ELSE "gen_append"
  /\ UNCHANGED << type_index, results >>
  /\ UNCHANGED folder_vars
  /\ UNCHANGED publish_vars
  /\ UNCHANGED exit_code

\* Lines 304-312: the interaction is stored and the loop goes to the next
\* type.
StoreInteractions ==
  /\ pc = "gen_append"
  /\ results' = Append(results, [ type |-> RESPONSE_TYPES[type_index],
                                  interactions |-> << interaction >> ])
  /\ pc' = IF type_index < Len(RESPONSE_TYPES) THEN "gen_type" ELSE "gen_done"
  /\ UNCHANGED << type_index, retry_count, interaction, outputs >>
  /\ UNCHANGED folder_vars
  /\ UNCHANGED publish_vars
  /\ UNCHANGED exit_code

InitGenerate ==
  /\ pc = "gen_type"
  /\ content_text = <<>>
  /\ segments = NoValue
  /\ force_legacy = FALSE
  /\ dry_run = FALSE
  /\ messages = <<>>
  /\ sent = <<>>
  /\ resp = <<>>
  /\ result = NoValue
  /\ call = NoValue
  /\ service = {}
  /\ files = <<>>
  /\ idx = 0
  /\ published = <<>>
  /\ extras = <<>>
  /\ exit_code = -1
  /\ NoFolderStage
  /\ NoGenerator

NextGenerate == StartType \/ GenerateInteraction \/ StoreInteractions

SpecGenerate == InitGenerate /\ [][NextGenerate]_vars

-----------------------------------------------------------------------------
(* Properties of the converted document (SpecConvert)                       *)

\* The content holds no role header line, as given and as the conversion
\* trims it.
C30_NoRoleHeader(content) ==
  /\ _parse_markdown_segments(content) = None
  /\ _parse_markdown_segments(strip(content)) = None

DASHES == << "-", "-", "-" >>

\* The last line of the segment is the separator "---".
C30_EndsWithSeparator(seg) ==
  /\ Len(seg) >= 3
  /\ Slice(seg, Len(seg) - 3, Len(seg)) = DASHES
  /\ Len(seg) = 3 \/ seg[Len(seg) - 3] = "\n"

C30_Parsed == pc = "parse_done" /\ C30_NoRoleHeader(content_text)

\* C30: for a document produced by convert_to_jinja2_format from content that
\* contains no role header line, _parse_markdown_segments yields messages with
\* roles system, user, assistant in that order, and the "---" separator lines
\* the conversion inserts between the sections appear in no message segment:
\* the user message's only segment is exactly "{{ provider_question }}".
C30_SeparatorsInNoSegment ==
  C30_Parsed =>
    /\ [ k \in 1..Len(messages) |-> messages[k].role ] = << "system", "user", "assistant" >>
    /\ messages[2].content = << PROVIDER_QUESTION_VAR >>
    /\ \A k \in 1..Len(messages) : \A i \in 1..Len(messages[k].content) :
         ~C30_EndsWithSeparator(messages[k].content[i])

\* What the code does: the three roles in order, the separator after the user
\* section kept at the end of the user message's only segment.
C30_SeparatorStaysInUserSegment ==
  C30_Parsed =>
    /\ [ k \in 1..Len(messages) |-> messages[k].role ] = << "system", "user", "assistant" >>
    /\ messages[2].content = << PROVIDER_QUESTION_VAR \o NLNL \o DASHES >>
    /\ messages[3].content = << ASSISTANT_SCAFFOLD >>

\* The content "a": the system message has the segments "a" and "---", the
\* user message the placeholder followed by a blank line and "---".
C30_SeparatorPublished ==
  /\ pc = "parse_done"
  /\ content_text = << "a" >>
  /\ messages[1].content = << << "a" >>, DASHES >>
  /\ messages[2].content = << PROVIDER_QUESTION_VAR \o NLNL \o DASHES >>

-----------------------------------------------------------------------------
(* Properties of the generator's retry loop (SpecGenerate)                  *)

\* Model call k of the type under way gave an output longer than 50
\* characters.
C25_Accepted(k) ==
  /\ outputs[k] # ModelRaises
  /\ Sufficient(generate_interaction(outputs[k]))

\* At most max_retries calls per type; an accepted output is the last call of
\* its type and is the interaction kept; the loop runs only while retries are
\* left.
C25_Bounded ==
  /\ Len(outputs) <= max_retries
  /\ \A k \in 1..Len(outputs) :
       C25_Accepted(k) =>
         /\ k = Len(outputs)
         /\ pc # "gen_retry"
         /\ interaction = generate_interaction(outputs[k])
  /\ pc = "gen_retry" =>
       /\ retry_count < max_retries
       /\ retry_count = Len(outputs)
       /\ \A k \in 1..Len(outputs) : ~C25_Accepted(k)
  /\ Len(results) <= Len(RESPONSE_TYPES)

\* The steps the run has left at most: max_retries calls and the storing for
\* the type under way, and as much and the start for every later type.
C25_StepsLeft ==
  (Len(RESPONSE_TYPES) - type_index) * (max_retries + 2)
  + CASE pc = "gen_type" -> 0
      [] pc = "gen_retry" -> 1 + (max_retries - retry_count)
      [] pc = "gen_append" -> 1
      [] pc = "gen_done" -> 0

\* C25: for each response type the retry loop calls the model at most 3
\* times, stops at the first output longer than 50 characters, and terminates
\* for every sequence of short outputs and exceptions: every step lowers the
\* number of steps left; after an accepted output no further call is made for
\* that type.
C25_RetryLoopTerminates ==
  /\ [](C25_Bounded /\ C25_StepsLeft >= 0)
  /\ [][C25_StepsLeft' < C25_StepsLeft]_vars

\* A type whose first call gave a short output, whose second raised and whose
\* third was accepted.
C25_Witness ==
  /\ pc = "gen_append"
  /\ Len(outputs) = max_retries
  /\ outputs[1] = PyStr(<<>>)
  /\ outputs[2] = ModelRaises
  /\ C25_Accepted(3)
  /\ retry_count = 2
  /\ interaction = PyStr(Xs(SufficientLength + 1))

\* The run is over: the second type was given up after three calls, the third
\* accepted at its first call.
C25_DoneWitness ==
  /\ pc = "gen_done"
  /\ Len(results) = Len(RESPONSE_TYPES)
  /\ results[2].interactions = << PyNone >>
  /\ Len(outputs) = 1
  /\ results[3].interactions = << PyStr(Xs(SufficientLength + 1)) >>

====
